---- MODULE Spec2Model ----
(***************************************************************************)
(* Audio pacer: the PCM analysis and resynthesis pipeline of              *)
(* src/services/audioProcessor.ts (detectSpeechChunks, createPaddedAudio,  *)
(* encodeMp3, processAudioFile, mergeAudioFiles), and its two callers,     *)
(* App (src/App.tsx) and Merger (src/components/Merger.tsx).               *)
(*                                                                         *)
(* State.  lamejs: whether the encoder library is loaded.  fn: one call of *)
(* a pure function.  pace, merge: one invocation of a pipeline, step by    *)
(* step.  app, merger: the components' React state.  inFlight: the         *)
(* invocations whose promise has not settled.  urls: the object URLs       *)
(* created and not revoked.  invocations: two invocations of the pipelines *)
(* running side by side.                                                   *)
(*                                                                         *)
(* Numbers.  JavaScript numbers that may be fractional (minSilenceDuration,*)
(* pauseMultiplier, minSilenceSamples, the scan index i after a skip,      *)
(* totalLength, currentPosition) are exact rationals with denominator Den, *)
(* held as their numerators ("scaled").  Sample indices and lengths that   *)
(* the code keeps integral are plain integers.  Amplitudes are integer     *)
(* levels; only their order against silenceThreshold matters to the code.  *)
(***************************************************************************)
EXTENDS Integers, Sequences, FiniteSets, TLC

VARIABLES lamejs, fn, pace, merge, app, merger, inFlight, urls, invocations

vars == <<lamejs, fn, pace, merge, app, merger, inFlight, urls, invocations>>

\* No pipeline invocations side by side.
NoInvocations == <<>>

(***************************************************************************)
(* Bounds of the model.                                                    *)
(***************************************************************************)
\* Denominator of the model's rationals (halves).
Den == 2
\* Longest buffer (samples per channel) scanned by detectSpeechChunks.
MaxLen == 7
\* Longest buffer (samples per channel) handed to createPaddedAudio.
MaxResynthLen == 3
\* Longest buffer (samples per channel) the decoder hands to processAudioFile.
MaxPaceLen == 4
\* Most files handed to mergeAudioFiles.
MaxFiles == 3
\* Longest buffer (samples per channel) the decoder hands to mergeAudioFiles.
MaxMergeLen == 2
\* Most calls (encodeBuffer and flush) one encodeMp3 makes on the encoder.
MaxEncoderCalls == 4
\* Most invocations in flight at once; a caller starts none beyond it.
MaxInFlight == 2
\* Most object URLs alive at once.
MaxUrls == 2
\* Most files in the Merger's list.
MaxMergerFiles == 2

\* Amplitude levels a sample takes: silent, equal to the low threshold, loud.
Samples == {0, 1, -3}
\* Amplitude levels of the second channel of a stereo buffer.
RightSamples == {0, 2}
\* silenceThreshold values (amplitude levels).
Thresholds == {1, 2}
\* Sample rates (Hz, scaled down).
SampleRates == {2, 3}
\* minSilenceDuration values, scaled: k stands for k/Den seconds.
MinSilenceDurations == {1, 2}
\* pauseMultiplier values, scaled: k stands for k/Den.
PauseMultipliers == {0, 1, 2, 3}

(***************************************************************************)
(* Helpers: JavaScript Math and typed arrays.                              *)
(***************************************************************************)
Abs(x) == IF x < 0 THEN -x ELSE x

MinOf(S) == CHOOSE x \in S : \A y \in S : x <= y

\* Math.ceil of the rational n/Den.
Ceil(n) == -((-n) \div Den)

\* Math.round of the rational n/Den: floor(n/Den + 1/2).
Round(n) == (2 * n + Den) \div (2 * Den)

\* new Float32Array(len): zero-initialised.
Zeros(len) == [k \in 1..len |-> 0]

\* All sequences over S of length lo..hi.
SeqsOf(S, lo, hi) == UNION {[1..n -> S] : n \in lo..hi}

\* typedArray.subarray(start, end) for 0 <= start <= end <= length.
Subarray(data, start, end) == SubSeq(data, start + 1, end)

\* dst.set(src, offset) when it fits; the caller checks SetFits first
\* (TypedArray.prototype.set throws RangeError otherwise).
SetFits(dst, src, offset) == offset >= 0 /\ offset + Len(src) <= Len(dst)

SetAt(dst, src, offset) ==
    [k \in 1..Len(dst) |->
        IF k > offset /\ k <= offset + Len(src) THEN src[k - offset] ELSE dst[k]]

(***************************************************************************)
(* Data model: AudioBuffer, Settings, SpeechChunk.                         *)
(***************************************************************************)
\* An AudioBuffer: channels is the sequence of per-channel sample sequences.
AudioBuffer(chs, rate) ==
    [numberOfChannels |-> Len(chs), sampleRate |-> rate,
     length |-> Len(chs[1]), channels |-> chs]

\* audioContext.createBuffer(numberOfChannels, length, sampleRate).
createBuffer(numberOfChannels, length, sampleRate) ==
    AudioBuffer([c \in 1..numberOfChannels |-> Zeros(length)], sampleRate)

getChannelData(buffer, channel) == buffer.channels[channel + 1]

\* A channel with every sample inverted.
Negated(d) == [k \in 1..Len(d) |-> -d[k]]

MonoBuffers(maxLen) ==
    {AudioBuffer(<<d>>, r) : d \in SeqsOf(Samples, 1, maxLen), r \in SampleRates}

StereoBuffers(maxLen) ==
    UNION {{AudioBuffer(<<d, e>>, r) :
                d \in [1..n -> Samples], e \in [1..n -> RightSamples],
                r \in SampleRates} : n \in 1..maxLen}

Buffers(maxLen) == MonoBuffers(maxLen) \cup StereoBuffers(maxLen)

SettingsSet ==
    [silenceThreshold : Thresholds, minSilenceDuration : MinSilenceDurations,
     pauseMultiplier : PauseMultipliers]

SpeechChunk(s, e) == [start |-> s, end |-> e]

(***************************************************************************)
(* detectSpeechChunks (audioProcessor.ts 11-50).                           *)
(* The scan state is [i, speechStart, chunks]; i is scaled by Den because  *)
(* "i += minSilenceSamples" adds a number that need not be whole.          *)
(***************************************************************************)
\* const minSilenceSamples = sampleRate * minSilenceDuration (scaled).
minSilenceSamples(sampleRate, settings) == sampleRate * settings.minSilenceDuration

\* channelData[i] for a scaled index: undefined (FALSE) off the integers
\* and past the end, so Math.abs gives NaN and both comparisons are false.
IsIndex(channelData, i) == i >= 0 /\ i % Den = 0 /\ i \div Den < Len(channelData)

\* Line 21 with a mutation: any non-zero sample counts as speech.
LoudNonZero(channelData, k, threshold) == Abs(channelData[k + 1]) > 0

\* Lines 21, 29: Math.abs(channelData[k]) > silenceThreshold.
Loud(channelData, k, threshold) == Abs(channelData[k + 1]) > threshold

\* Line 25: Math.abs(channelData[k]) < silenceThreshold.
Quiet(channelData, k, threshold) == Abs(channelData[k + 1]) < threshold

\* Lines 21-23: open a speech region.
OpenSpeech(channelData, threshold, st) ==
    IF IsIndex(channelData, st.i) /\ st.speechStart < 0
       /\ Loud(channelData, st.i \div Den, threshold)
    THEN [st EXCEPT !.speechStart = st.i \div Den]
    ELSE st

\* Lines 28-34 with a mutation: the lookahead window is one sample short.
LookaheadLoudShort(channelData, threshold, mss, k) ==
    {j \in k..(Len(channelData) - 1) :
        j * Den < k * Den + mss - Den /\ Loud(channelData, j, threshold)}

\* Lines 28-34: the samples j of the lookahead that exceed the threshold.
LookaheadLoud(channelData, threshold, mss, k) ==
    {j \in k..(Len(channelData) - 1) :
        j * Den < k * Den + mss /\ Loud(channelData, j, threshold)}

\* Lines 36-40 with a mutation: speechStart is not reset.
CloseChunkNoReset(st, k, mss) ==
    [st EXCEPT !.chunks = Append(st.chunks, SpeechChunk(st.speechStart, k)),
               !.i = k * Den + mss]

\* Lines 36-40: push the chunk, leave speech, skip past the silence.
CloseChunk(st, k, mss) ==
    [st EXCEPT !.chunks = Append(st.chunks, SpeechChunk(st.speechStart, k)),
               !.speechStart = -1,
               !.i = k * Den + mss]

\* Lines 25-41: a below-threshold sample while in speech.
SilenceLookahead(channelData, threshold, mss, st) ==
    IF IsIndex(channelData, st.i) /\ st.speechStart >= 0
       /\ Quiet(channelData, st.i \div Den, threshold)
    THEN LET k == st.i \div Den
             loud == LookaheadLoud(channelData, threshold, mss, k)
         IN  IF loud # {}
             THEN [st EXCEPT !.i = MinOf(loud) * Den]
             ELSE CloseChunk(st, k, mss)
    ELSE st

\* One iteration of the for loop, its i++ included.
ScanBody(channelData, threshold, mss, st) ==
    LET a == OpenSpeech(channelData, threshold, st)
        b == SilenceLookahead(channelData, threshold, mss, a)
    IN  [b EXCEPT !.i = b.i + Den]

RECURSIVE Scan(_, _, _, _)
Scan(channelData, threshold, mss, st) ==
    IF st.i < Len(channelData) * Den
    THEN Scan(channelData, threshold, mss, ScanBody(channelData, threshold, mss, st))
    ELSE st

detectSpeechChunks(audioBuffer, settings) ==
    LET channelData == getChannelData(audioBuffer, 0)
        mss == minSilenceSamples(audioBuffer.sampleRate, settings)
        st == Scan(channelData, settings.silenceThreshold, mss,
                   [i |-> 0, speechStart |-> -1, chunks |-> <<>>])
    IN  IF st.speechStart >= 0
        THEN Append(st.chunks, SpeechChunk(st.speechStart, Len(channelData)))
        ELSE st.chunks

(***************************************************************************)
(* Errors.  An Error carries its kind and "names": the values the code     *)
(* interpolates into the message text, in order.                           *)
(***************************************************************************)
Error(kind, names) == [kind |-> kind, names |-> names]

NoError == Error("none", <<>>)

NoBuffer == [numberOfChannels |-> 0, sampleRate |-> 0, length |-> 0, channels |-> <<>>]

(***************************************************************************)
(* createPaddedAudio (audioProcessor.ts 52-90).                            *)
(***************************************************************************)
\* Lines 56-61: totalLength, scaled by Den.
RECURSIVE totalLength(_, _)
totalLength(chunks, pauseMultiplier) ==
    IF chunks = <<>> THEN 0
    ELSE (Head(chunks).end - Head(chunks).start) * (Den + pauseMultiplier)
         + totalLength(Tail(chunks), pauseMultiplier)

\* Line 68 with a mutation: Math.floor in place of Math.ceil.
paddedLengthFloor(total) == total \div Den

\* Line 68: Math.ceil(totalLength).
paddedLength(total) == Ceil(total)

\* Line 80 with a mutation: the position is truncated, not rounded.
writePositionTrunc(currentPosition) == currentPosition \div Den

\* Line 80: Math.round(currentPosition).
writePosition(currentPosition) == Round(currentPosition)

\* Lines 81-85 with a mutation: the pause is added twice.
advancePauseTwice(currentPosition, chunkDuration, pauseMultiplier) ==
    currentPosition + chunkDuration * Den + 2 * chunkDuration * pauseMultiplier

\* Lines 81-85: advance past the chunk and its scaled pause (scaled by Den).
advance(currentPosition, chunkDuration, pauseMultiplier) ==
    currentPosition + chunkDuration * Den + chunkDuration * pauseMultiplier

\* Lines 75-86 for one channel: [data, ok]; ok is FALSE once a set() threw.
RECURSIVE copyChunks(_, _, _, _, _)
copyChunks(originalData, newData, chunks, currentPosition, pauseMultiplier) ==
    IF chunks = <<>> THEN [data |-> newData, ok |-> TRUE]
    ELSE LET chunk == Head(chunks)
             chunkDuration == chunk.end - chunk.start
             chunkData == Subarray(originalData, chunk.start, chunk.end)
             at == writePosition(currentPosition)
         IN  IF ~SetFits(newData, chunkData, at)
             THEN [data |-> newData, ok |-> FALSE]
             ELSE copyChunks(originalData, SetAt(newData, chunkData, at),
                             Tail(chunks),
                             advance(currentPosition, chunkDuration, pauseMultiplier),
                             pauseMultiplier)

\* The result is [error, buffer]: a thrown Error with NoBuffer, or NoError
\* with the returned buffer.
createPaddedAudio(originalBuffer, chunks, settings) ==
    LET total == totalLength(chunks, settings.pauseMultiplier)
        len == paddedLength(total)
        copied == [c \in 1..originalBuffer.numberOfChannels |->
                      copyChunks(originalBuffer.channels[c], Zeros(len), chunks, 0,
                                 settings.pauseMultiplier)]
    IN  IF total = 0
        THEN [error |-> Error("EmptyResynthesis", <<>>), buffer |-> NoBuffer]
        ELSE IF len <= 0
        THEN [error |-> Error("NotSupportedError", <<>>), buffer |-> NoBuffer]
        ELSE IF \E c \in 1..originalBuffer.numberOfChannels : ~copied[c].ok
        THEN [error |-> Error("RangeError", <<>>), buffer |-> NoBuffer]
        ELSE [error |-> NoError,
              buffer |-> AudioBuffer([c \in 1..originalBuffer.numberOfChannels |->
                                         copied[c].data],
                                     originalBuffer.sampleRate)]

(***************************************************************************)
(* encodeMp3 (audioProcessor.ts 92-133).  The block encoder (lamejs) is    *)
(* external: what the model keeps of it is the sequence of calls made to   *)
(* it and the length of the fragment each call returns.  mp3bufs[n] is the *)
(* length of the fragment the n-th call (encodeBuffer or flush) returns.   *)
(***************************************************************************)
sampleBlockSize == 1152

\* The lengths a returned fragment may have: empty or not.
FragmentLengths == {0, 1}

\* Every way the encoder may answer calls calls.
EncoderReturns(calls) == [1..calls -> FragmentLengths]

\* rightChunk of a mono buffer: undefined.
NoRange == <<>>

\* Lines 116-117: typedArray.subarray(i, i + sampleBlockSize) as the index
\* range <<from, to>> it views, the end clamped to the array's length.
subarray(i, length) ==
    <<i, IF i + sampleBlockSize < length THEN i + sampleBlockSize ELSE length>>

\* Lines 121-124 and 128-130 with a mutation: every fragment is pushed.
pushFragmentAlways(mp3Data, call, mp3buf) ==
    Append(mp3Data, [call |-> call, length |-> mp3buf])

\* Lines 121-124 and 128-130: if (mp3buf.length > 0) mp3Data.push(mp3buf).
pushFragment(mp3Data, call, mp3buf) ==
    IF mp3buf > 0
    THEN Append(mp3Data, [call |-> call, length |-> mp3buf])
    ELSE mp3Data

\* Lines 115-124: one iteration of the block loop, without its increment.
\* The state is [i, calls, mp3Data]; calls are the encoder calls so far.
encodeBlock(st, length, numberOfChannels, mp3bufs) ==
    LET leftChunk == subarray(st.i, length)
        rightChunk == IF numberOfChannels > 1 THEN subarray(st.i, length) ELSE NoRange
        n == Len(st.calls) + 1
    IN  [st EXCEPT !.calls = Append(st.calls,
                                    [ev |-> "encodeBuffer", text |-> "",
                                     names |-> leftChunk \o rightChunk]),
                   !.mp3Data = pushFragment(st.mp3Data, n, mp3bufs[n])]

\* Line 114: for (let i = 0; i < left.length; i += sampleBlockSize).
RECURSIVE encodeBlocks(_, _, _, _)
encodeBlocks(st, length, numberOfChannels, mp3bufs) ==
    IF st.i < length
    THEN LET a == encodeBlock(st, length, numberOfChannels, mp3bufs)
         IN  encodeBlocks([a EXCEPT !.i = a.i + sampleBlockSize],
                          length, numberOfChannels, mp3bufs)
    ELSE st

\* Lines 127-130: flush the encoder and keep its last fragment.
encodeFlush(st, mp3bufs) ==
    LET n == Len(st.calls) + 1
    IN  [st EXCEPT !.calls = Append(st.calls,
                                    [ev |-> "flush", text |-> "", names |-> <<>>]),
                   !.mp3Data = pushFragment(st.mp3Data, n, mp3bufs[n])]

\* Lines 99-111: the encoder is constructed and the first two channels are
\* converted to 16-bit samples (the conversion itself is not modelled).
encodeSetup(audioBuffer) ==
    <<[ev |-> "Mp3Encoder", text |-> "",
       names |-> <<audioBuffer.numberOfChannels, audioBuffer.sampleRate>>]>>
    \o [c \in 1..(IF audioBuffer.numberOfChannels > 1 THEN 2 ELSE 1) |->
           [ev |-> "convertBuffer", text |-> "", names |-> <<c - 1>>]]

NoBlob == [type |-> "", parts |-> <<>>]

\* Lines 93-96 with a mutation: lamejs is only missed once a block is fed.
encodeMp3CheckLate(audioBuffer, loaded, mp3bufs) ==
    LET st == encodeFlush(encodeBlocks([i |-> 0, calls |-> <<>>, mp3Data |-> <<>>],
                                       audioBuffer.length,
                                       audioBuffer.numberOfChannels, mp3bufs),
                          mp3bufs)
    IN  IF ~loaded
        THEN [error |-> Error("EncoderUnavailable", <<>>), blob |-> NoBlob,
              calls |-> encodeSetup(audioBuffer) \o SubSeq(st.calls, 1, 1)]
        ELSE [error |-> NoError,
              blob |-> [type |-> "audio/mpeg", parts |-> st.mp3Data],
              calls |-> encodeSetup(audioBuffer) \o st.calls]

\* The result is [error, blob, calls]: what was thrown, the Blob returned
\* (its parts are the fragments kept, each the call that returned it and
\* its length) and the calls made on the way, in order.  loaded is
\* "typeof lamejs !== 'undefined'"; EncoderUnavailable is the error
\* 'lamejs library is not loaded. Please include it in your HTML.'.
encodeMp3(audioBuffer, loaded, mp3bufs) ==
    IF ~loaded
    THEN [error |-> Error("EncoderUnavailable", <<>>), blob |-> NoBlob, calls |-> <<>>]
    ELSE LET st == encodeFlush(encodeBlocks([i |-> 0, calls |-> <<>>, mp3Data |-> <<>>],
                                            audioBuffer.length,
                                            audioBuffer.numberOfChannels, mp3bufs),
                               mp3bufs)
         IN  [error |-> NoError,
              blob |-> [type |-> "audio/mpeg", parts |-> st.mp3Data],
              calls |-> encodeSetup(audioBuffer) \o st.calls]

(***************************************************************************)
(* Pipeline invocations.  An invocation record holds the locals of one     *)
(* call of processAudioFile or mergeAudioFiles, its position (pc), and its *)
(* log: every setProgress call, every call of a stage and the throw, in    *)
(* program order.  A stage operator leaves an invocation that has thrown   *)
(* untouched: an exception propagates out of the async function.           *)
(***************************************************************************)
Ev(ev, text, names) == [ev |-> ev, text |-> text, names |-> names]

Log(inv, ev, text, names) == [inv EXCEPT !.log = Append(inv.log, Ev(ev, text, names))]

\* The setProgress callback.
setProgress(inv, text, names) == Log(inv, "setProgress", text, names)

\* A throw with a mutation: the error is recorded and execution goes on.
ThrowAndGoOn(inv, err) ==
    [Log(inv, "throw", err.kind, err.names) EXCEPT !.error = err]

\* throw new Error(...): the invocation ends, rejected with err.
Throw(inv, err) ==
    [Log(inv, "throw", err.kind, err.names) EXCEPT !.error = err, !.pc = "threw"]

Running(inv) == inv.pc = "running"

(***************************************************************************)
(* processAudioFile (audioProcessor.ts 136-158).                           *)
(***************************************************************************)
NoSettings == [silenceThreshold |-> 0, minSilenceDuration |-> 0, pauseMultiplier |-> 0]

NoPace ==
    [pc |-> "none", settings |-> NoSettings, originalBuffer |-> NoBuffer,
     speechChunks |-> <<>>, newBuffer |-> NoBuffer, log |-> <<>>,
     error |-> NoError, blob |-> NoBlob]

\* Lines 141-142 with a mutation: the decode starts before it is reported.
paceCallDecodeFirst(inv) ==
    [setProgress(Log(inv, "decodeAudio", "", <<1>>),
                 "Step 1/4: Decoding audio...", <<>>) EXCEPT !.pc = "decoding"]

\* Lines 141-142: report stage 1 and await decodeAudio(file).
paceCall(inv) ==
    [Log(setProgress(inv, "Step 1/4: Decoding audio...", <<>>),
         "decodeAudio", "", <<1>>) EXCEPT !.pc = "decoding"]

\* Line 147 with a mutation: the empty chunk list is not checked.
noSpeechNever(speechChunks) == FALSE

\* Line 147: speechChunks.length === 0.
noSpeech(speechChunks) == Len(speechChunks) = 0

\* Lines 144-149: stage 2.
segmentStage(inv) ==
    IF ~Running(inv) THEN inv
    ELSE LET a == Log(setProgress(inv, "Step 2/4: Analyzing for speech...", <<>>),
                      "detectSpeechChunks", "", <<>>)
             b == [a EXCEPT !.speechChunks =
                                detectSpeechChunks(inv.originalBuffer, inv.settings)]
         IN  IF noSpeech(b.speechChunks)
             THEN Throw(b, Error("NoSpeechDetected", <<>>))
             ELSE b

\* Lines 151-152: stage 3.
resynthesizeStage(inv) ==
    IF ~Running(inv) THEN inv
    ELSE LET a == Log(setProgress(inv, "Step 3/4: Reconstructing audio with pauses...",
                                  <<Len(inv.speechChunks)>>),
                      "createPaddedAudio", "", <<Len(inv.speechChunks)>>)
             r == createPaddedAudio(inv.originalBuffer, inv.speechChunks, inv.settings)
         IN  IF r.error # NoError THEN Throw(a, r.error)
             ELSE [a EXCEPT !.newBuffer = r.buffer]

\* Lines 154-157: stage 4 and the return.
encodeStage(inv, buffer, loaded, mp3bufs) ==
    IF ~Running(inv) THEN inv
    ELSE LET r == encodeMp3(buffer, loaded, mp3bufs)
             a == Log(inv, "encodeMp3", "", <<buffer.length>>)
             b == [a EXCEPT !.log = a.log \o r.calls]
         IN  IF r.error # NoError THEN Throw(b, r.error)
             ELSE [b EXCEPT !.blob = r.blob, !.pc = "returned"]

\* Lines 142-157: decodeAudio resolved with buffer; the rest runs to the end.
paceDecoded(inv, buffer, loaded, mp3bufs) ==
    LET a == [inv EXCEPT !.originalBuffer = buffer, !.pc = "running"]
        b == resynthesizeStage(segmentStage(a))
        c == IF Running(b)
             THEN setProgress(b, "Step 4/4: Encoding final MP3 file...", <<>>)
             ELSE b
    IN  encodeStage(c, c.newBuffer, loaded, mp3bufs)

\* Line 142: decodeAudio rejected; the rejection propagates unchanged.
paceDecodeFailed(inv) == Throw(inv, Error("DecodeFailure", <<>>))

(***************************************************************************)
(* mergeAudioFiles (audioProcessor.ts 160-210).                            *)
(***************************************************************************)
NoMerge ==
    [pc |-> "none", files |-> <<>>, i |-> 0, decodedBuffers |-> <<>>,
     mergedBuffer |-> NoBuffer, log |-> <<>>, error |-> NoError, blob |-> NoBlob]

\* Line 164 with a mutation: off by one.
tooFewFilesOffByOne(files) == Len(files) < 1

\* Line 164: files.length < 2.
tooFewFiles(files) == Len(files) < 2

\* Lines 173-174 with a mutation: the file's decode is not reported.
startDecodeSilent(inv) ==
    [Log(inv, "decodeAudio", "", <<inv.files[inv.i + 1]>>) EXCEPT !.pc = "decoding"]

\* Lines 173-174: report the file and await its decode (i is 0-based).
startDecode(inv) ==
    [Log(setProgress(inv, "Decoding i/n: name...",
                     <<inv.i + 1, Len(inv.files), inv.files[inv.i + 1]>>),
         "decodeAudio", "", <<inv.files[inv.i + 1]>>) EXCEPT !.pc = "decoding"]

\* Lines 171-176 with a mutation: the second decode starts with the first.
mergeCallTwoAtOnce(inv) ==
    IF tooFewFiles(inv.files)
    THEN Throw(inv, Error("InvalidInputCount", <<>>))
    ELSE Log(startDecode(setProgress(inv, "Step 1/total: Decoding audio files...",
                                     <<Len(inv.files) + 2>>)),
             "decodeAudio", "", <<inv.files[2]>>)

\* Lines 164-174: the call, up to the first await.
mergeCall(inv) ==
    IF tooFewFiles(inv.files)
    THEN Throw(inv, Error("InvalidInputCount", <<>>))
    ELSE startDecode(setProgress(inv, "Step 1/total: Decoding audio files...",
                                 <<Len(inv.files) + 2>>))

\* Lines 174-179: a decode resolved; decode the next file or go on to the
\* validation stage, which starts behind a 50 ms timer.
mergeDecoded(inv, buffer) ==
    LET a == [inv EXCEPT !.decodedBuffers = Append(inv.decodedBuffers, buffer),
                         !.i = inv.i + 1]
    IN  IF a.i < Len(a.files)
        THEN startDecode(a)
        ELSE [setProgress(a, "Step n+1/total: Validating audio properties...",
                          <<Len(a.files) + 1, Len(a.files) + 2>>)
                EXCEPT !.pc = "validating"]

\* Line 174: decodeAudio rejected.
mergeDecodeFailed(inv) == Throw(inv, Error("DecodeFailure", <<>>))

\* Lines 185-193 with a mutation: only the first two buffers are compared.
mismatchesFirstTwo(decodedBuffers) ==
    {k \in 1..2 :
        \/ decodedBuffers[k].sampleRate # decodedBuffers[1].sampleRate
        \/ decodedBuffers[k].numberOfChannels # decodedBuffers[1].numberOfChannels}

\* Lines 185-193: the positions whose buffer differs from the first in
\* sample rate or channel count.
mismatches(decodedBuffers) ==
    {k \in 1..Len(decodedBuffers) :
        \/ decodedBuffers[k].sampleRate # decodedBuffers[1].sampleRate
        \/ decodedBuffers[k].numberOfChannels # decodedBuffers[1].numberOfChannels}

\* Lines 186-191: the error thrown for buffer, given the first buffer's
\* sampleRate and numberOfChannels; the message names only these.
mismatchError(buffer, sampleRate, numberOfChannels) ==
    IF buffer.sampleRate # sampleRate
    THEN Error("SampleRateMismatch", <<sampleRate>>)
    ELSE Error("ChannelCountMismatch", <<numberOfChannels>>)

RECURSIVE sumLengths(_)
sumLengths(buffers) ==
    IF buffers = <<>> THEN 0 ELSE Head(buffers).length + sumLengths(Tail(buffers))

\* Lines 181-196: the first timer fired; validate, then report the merge
\* stage, which starts behind another 50 ms timer.
mergeValidate(inv) ==
    LET first == inv.decodedBuffers[1]
        bad == mismatches(inv.decodedBuffers)
    IN  IF bad # {}
        THEN Throw(inv, mismatchError(inv.decodedBuffers[MinOf(bad)],
                                      first.sampleRate, first.numberOfChannels))
        ELSE [setProgress(inv, "Step n+2/total: Merging audio...",
                          <<Len(inv.files) + 2, Len(inv.files) + 2>>)
                EXCEPT !.pc = "merging"]

\* Line 205 with a mutation: the offset is not advanced.
nextOffsetStuck(offset, buffer) == offset

\* Line 205: offset += buffer.length.
nextOffset(offset, buffer) == offset + buffer.length

\* Lines 201-206: copy the buffers from position k on into merged at offset.
RECURSIVE concatFrom(_, _, _, _)
concatFrom(merged, buffers, k, offset) ==
    IF k > Len(buffers) THEN merged
    ELSE concatFrom(
             [merged EXCEPT !.channels =
                 [c \in 1..merged.numberOfChannels |->
                     SetAt(merged.channels[c], buffers[k].channels[c], offset)]],
             buffers, k + 1, nextOffset(offset, buffers[k]))

\* Lines 181-182 and 198-206 with a mutation: the merged buffer is
\* allocated one sample longer than the sum of the lengths.
mergeBuffersPadded(decodedBuffers) ==
    LET firstBuffer == decodedBuffers[1]
    IN  concatFrom(createBuffer(firstBuffer.numberOfChannels,
                                sumLengths(decodedBuffers) + 1,
                                firstBuffer.sampleRate),
                   decodedBuffers, 1, 0)

\* Lines 181-182 and 198-206: the merged buffer of validated buffers, with
\* the first buffer's channel count and sample rate.
mergeBuffers(decodedBuffers) ==
    LET firstBuffer == decodedBuffers[1]
    IN  concatFrom(createBuffer(firstBuffer.numberOfChannels,
                                sumLengths(decodedBuffers),
                                firstBuffer.sampleRate),
                   decodedBuffers, 1, 0)

\* Lines 198-209: the second timer fired; allocate, copy, encode, return.
mergeConcat(inv, loaded, mp3bufs) ==
    LET a == Log(inv, "createBuffer", "", <<sumLengths(inv.decodedBuffers)>>)
        merged == mergeBuffers(inv.decodedBuffers)
        b == [Log(a, "set", "", <<Len(inv.decodedBuffers)>>)
                EXCEPT !.mergedBuffer = merged, !.pc = "running"]
    IN  encodeStage(b, merged, loaded, mp3bufs)

(***************************************************************************)
(* The callers: App (App.tsx) and Merger (components/Merger.tsx).          *)
(* app and merger hold the components' React state; merger.mounted says    *)
(* whether App renders a Merger at all (App.tsx 200).  inFlight holds the  *)
(* invocations of processAudioFile and mergeAudioFiles whose promise has   *)
(* not settled; to the callers the pipeline is a promise that resolves     *)
(* with a Blob or rejects with an Error.  urls holds the object URLs       *)
(* created and not revoked.                                                *)
(***************************************************************************)
File(name, type) == [name |-> name, type |-> type]

NoFile == File(0, "")

\* The files a user may pick: two names, a supported and an unsupported type.
UIFiles == {File(n, t) : n \in {1, 2}, t \in {"audio/mpeg", "text/plain"}}

\* App.tsx 44, Merger.tsx 22: the MIME types accepted.
validType(file) == file.type \in {"audio/mpeg", "audio/wav", "audio/x-wav"}

\* A displayed text: a template and the values interpolated into it.
Message(text, names) == [text |-> text, names |-> names]

\* The empty string, and null where the state is "string | null".
NoMessage == Message("", <<>>)

NoUrl == 0

\* No object URL exists.
NoUrls == {}

\* URL.createObjectURL: a URL that names no other live object, here the
\* least one; u is the set of URLs created and not revoked.
createObjectURL(u) == CHOOSE url \in 1..(Cardinality(u) + 1) :
                          url \notin u /\ \A other \in 1..(url - 1) : other \in u

\* if (url) URL.revokeObjectURL(url).
revokeIfSet(u, url) == IF url # NoUrl THEN u \ {url} ELSE u

\* The settings the sliders of the SettingsPanel are moved between.
UISettings == {s \in SettingsSet : s.silenceThreshold = 1 /\ s.minSilenceDuration = 1
                                   /\ s.pauseMultiplier \in {1, 3}}

\* App.tsx 26-38: the initial state (pauseMultiplier 1.5 is 3 / Den).
AppInitial ==
    [mode |-> "pacer", file |-> NoFile, processingState |-> "IDLE",
     progressMessage |-> NoMessage, originalAudioUrl |-> NoUrl,
     processedAudioUrl |-> NoUrl, processedFileName |-> NoMessage,
     error |-> NoMessage,
     settings |-> [silenceThreshold |-> 1, minSilenceDuration |-> 1,
                   pauseMultiplier |-> 3]]

\* Merger.tsx 9-14: the initial state of a Merger that has just mounted.
MergerInitial ==
    [mounted |-> TRUE, files |-> <<>>, processingState |-> "IDLE",
     progressMessage |-> NoMessage, mergedAudioUrl |-> NoUrl,
     mergedFileName |-> NoMessage, error |-> NoMessage]

\* No Merger is rendered.
NoMerger == [MergerInitial EXCEPT !.mounted = FALSE]

\* An invocation in flight: who called, with which files (what the array
\* it was handed holds now, and what it held at the call), whether that
\* array is the very one the Merger's state holds now, how many of the
\* invocation's awaits have resolved, and whether the component whose state
\* setters it holds is still mounted.  Its outcome is left open here, so
\* the settings passed to processAudioFile are not kept.
Invocation(caller, files, shared) ==
    [caller |-> caller, files |-> files, started |-> files, shared |-> shared,
     step |-> 0, mounted |-> TRUE]

\* The Merger's state is given a new array: no invocation holds that one.
stateArrayReplaced(running) ==
    [k \in 1..Len(running) |-> [running[k] EXCEPT !.shared = FALSE]]

\* The array in the Merger's state is written in place: every invocation
\* that was handed that array sees what it holds now.
stateArrayWritten(running, files) ==
    [k \in 1..Len(running) |->
        IF running[k].shared THEN [running[k] EXCEPT !.files = files]
        ELSE running[k]]

\* The callers before anything happened.
CallersInitial ==
    /\ app = AppInitial
    /\ merger = NoMerger
    /\ inFlight = <<>>
    /\ urls = NoUrls

WithoutAt(seq, k) == SubSeq(seq, 1, k - 1) \o SubSeq(seq, k + 1, Len(seq))

(***************************************************************************)
(* App's handlers.                                                         *)
(***************************************************************************)
\* App.tsx 40-52: a file is picked in the FileUpload, shown while Idle.
App_handleFileSelect ==
    /\ app.mode = "pacer" /\ app.processingState = "IDLE"
    /\ \E selectedFile \in UIFiles :
          IF ~validType(selectedFile)
          THEN /\ app' = [app EXCEPT !.error =
                              Message("Invalid file type. Please upload an MP3 or WAV file.", <<>>)]
               /\ urls' = urls
          ELSE /\ Cardinality(urls) < MaxUrls
               /\ urls' = urls \cup {createObjectURL(urls)}
               /\ app' = [app EXCEPT !.error = NoMessage,
                                     !.file = selectedFile,
                                     !.originalAudioUrl = createObjectURL(urls),
                                     !.processingState = "READY"]
    /\ UNCHANGED <<merger, inFlight>>
    /\ UNCHANGED <<lamejs, fn, pace, merge, invocations>>

\* App.tsx 141: a slider of the SettingsPanel is moved (disabled while
\* processing).
App_setSettings ==
    /\ app.mode = "pacer" /\ app.processingState = "READY" /\ app.file # NoFile
    /\ \E s \in UISettings : app' = [app EXCEPT !.settings = s]
    /\ UNCHANGED <<merger, inFlight, urls>>
    /\ UNCHANGED <<lamejs, fn, pace, merge, invocations>>

\* App.tsx 54-62: Start Processing is clicked (the button is rendered with a
\* file while Ready or Processing and disabled while Processing); the
\* handler runs up to its await, processAudioFile up to its first await.
App_handleProcessAudio ==
    /\ app.mode = "pacer" /\ app.processingState = "READY" /\ app.file # NoFile
    /\ Len(inFlight) < MaxInFlight
    /\ app' = [app EXCEPT !.processingState = "PROCESSING",
                          !.error = NoMessage,
                          !.processedAudioUrl = NoUrl,
                          !.progressMessage = Message("Step 1/4: Decoding audio...", <<>>)]
    /\ inFlight' = Append(inFlight, Invocation("App", <<app.file>>, FALSE))
    /\ UNCHANGED <<merger, urls>>
    /\ UNCHANGED <<lamejs, fn, pace, merge, invocations>>

\* App.tsx 62-70: processAudioFile resolved; the handler of the invocation
\* goes on with the file it was started with.
App_processResolved ==
    /\ \E k \in 1..Len(inFlight) :
          /\ inFlight[k].caller = "App"
          /\ Cardinality(urls) < MaxUrls
          /\ urls' = urls \cup {createObjectURL(urls)}
          /\ app' = [app EXCEPT !.processedAudioUrl = createObjectURL(urls),
                                !.processedFileName =
                                    Message("name_paced.wav", <<inFlight[k].files[1].name>>),
                                !.processingState = "DONE",
                                !.progressMessage = Message("Processing complete!", <<>>)]
          /\ inFlight' = WithoutAt(inFlight, k)
    /\ UNCHANGED merger
    /\ UNCHANGED <<lamejs, fn, pace, merge, invocations>>

\* The errors processAudioFile rejects with.
PaceErrors == {"DecodeFailure", "NoSpeechDetected"}

\* App.tsx 71-77: processAudioFile rejected.
App_processRejected ==
    /\ \E k \in 1..Len(inFlight) : \E err \in PaceErrors :
          /\ inFlight[k].caller = "App"
          /\ app' = [app EXCEPT !.error = Message(err, <<>>),
                                !.processingState = "ERROR",
                                !.progressMessage = NoMessage]
          /\ inFlight' = WithoutAt(inFlight, k)
    /\ UNCHANGED <<merger, urls>>
    /\ UNCHANGED <<lamejs, fn, pace, merge, invocations>>

\* App.tsx 80-90: the state setters of handleReset.
appReset(a) ==
    [a EXCEPT !.file = NoFile, !.processingState = "IDLE", !.error = NoMessage,
              !.progressMessage = NoMessage, !.originalAudioUrl = NoUrl,
              !.processedAudioUrl = NoUrl, !.processedFileName = NoMessage]

\* App.tsx 85-86: the revocations of handleReset.
appRevoke(a, u) == revokeIfSet(revokeIfSet(u, a.originalAudioUrl), a.processedAudioUrl)

\* App.tsx 80-90: "Process Another File" (shown when Done with an output
\* URL) or "Try Again" (shown on Error) is clicked.
App_handleReset ==
    /\ app.mode = "pacer"
    /\ \/ app.processingState = "ERROR"
       \/ app.processingState = "DONE" /\ app.processedAudioUrl # NoUrl
    /\ app' = appReset(app)
    /\ urls' = appRevoke(app, urls)
    /\ UNCHANGED <<merger, inFlight>>
    /\ UNCHANGED <<lamejs, fn, pace, merge, invocations>>

\* App.tsx 94-104 and 200: a tab is clicked.  App resets itself unless
\* Idle; the Merger mounts when its tab is entered and unmounts, its state
\* dropped, when it is left.  Nothing is done about invocations in flight.
App_handleModeChange ==
    /\ \E newMode \in {"pacer", "merger"} :
          /\ app' = [(IF app.processingState # "IDLE" THEN appReset(app) ELSE app)
                        EXCEPT !.error = NoMessage, !.mode = newMode]
          /\ urls' = (IF app.processingState # "IDLE" THEN appRevoke(app, urls) ELSE urls)
          /\ merger' = (IF newMode = "merger"
                        THEN (IF app.mode = "merger" THEN merger ELSE MergerInitial)
                        ELSE NoMerger)
          /\ inFlight' = [k \in 1..Len(inFlight) |->
                             IF inFlight[k].caller = "Merger" /\ ~merger'.mounted
                             THEN [inFlight[k] EXCEPT !.mounted = FALSE, !.shared = FALSE]
                             ELSE inFlight[k]]
    /\ UNCHANGED <<lamejs, fn, pace, merge, invocations>>

(***************************************************************************)
(* Merger's handlers.  The file list, the FileUpload under it and the      *)
(* Merge button are rendered while Ready or Processing (Merger.tsx 103).   *)
(***************************************************************************)
\* What one use of the FileUpload hands over: one file or two.
Selections == UNION {[1..n -> UIFiles] : n \in {1, 2}}

\* Merger.tsx 20-33: files are picked, in the FileUpload shown alone while
\* Idle or in the one under the list.
Merger_handleFileSelect ==
    /\ merger.mounted /\ merger.processingState \in {"IDLE", "READY", "PROCESSING"}
    /\ \E selectedFiles \in Selections :
          LET validFiles == SelectSeq(selectedFiles, validType)
          IN  /\ Len(merger.files) + Len(validFiles) <= MaxMergerFiles
              /\ merger' = [merger EXCEPT
                               !.error =
                                   (IF Len(validFiles) # Len(selectedFiles)
                                    THEN Message("Invalid file type detected. Please upload only MP3 or WAV files.", <<>>)
                                    ELSE NoMessage),
                               !.files = merger.files \o validFiles,
                               !.processingState = "READY"]
    /\ inFlight' = stateArrayReplaced(inFlight)
    /\ UNCHANGED <<app, urls>>
    /\ UNCHANGED <<lamejs, fn, pace, merge, invocations>>

ListShown == merger.mounted /\ merger.processingState \in {"READY", "PROCESSING"}

\* Merger.tsx 35-37: the X of a list entry is clicked.
Merger_handleRemoveFile ==
    /\ ListShown
    /\ \E indexToRemove \in 1..Len(merger.files) :
          merger' = [merger EXCEPT !.files = WithoutAt(merger.files, indexToRemove)]
    /\ inFlight' = stateArrayReplaced(inFlight)
    /\ UNCHANGED <<app, urls>>
    /\ UNCHANGED <<lamejs, fn, pace, merge, invocations>>

\* Array.splice(at, 0, item).
InsertAt(seq, at, item) == SubSeq(seq, 1, at - 1) \o <<item>> \o SubSeq(seq, at, Len(seq))

\* Merger.tsx 42-44 with a mutation: the array in the state is spliced.
splicedInPlace(running, newFiles) == stateArrayWritten(running, newFiles)

\* Merger.tsx 42-44, 49: newFiles is a copy, [...files]; it is spliced and
\* becomes the array in the state.
spliced(running, newFiles) == stateArrayReplaced(running)

\* Merger.tsx 39-50, 112-114: a list entry is dragged onto another one.
Merger_handleDragSort ==
    /\ ListShown
    /\ \E dragItem \in 1..Len(merger.files) : \E dragOverItem \in 1..Len(merger.files) :
          LET newFiles == InsertAt(WithoutAt(merger.files, dragItem), dragOverItem,
                                   merger.files[dragItem])
          IN  /\ merger' = [merger EXCEPT !.files = newFiles]
              /\ inFlight' = spliced(inFlight, newFiles)
    /\ UNCHANGED <<app, urls>>
    /\ UNCHANGED <<lamejs, fn, pace, merge, invocations>>

\* Merger.tsx 52-63: Merge is clicked (disabled while Processing or with
\* fewer than two files); the handler runs up to its await, mergeAudioFiles
\* up to its first await, the decode of the first file.
Merger_handleMerge ==
    /\ ListShown /\ merger.processingState # "PROCESSING" /\ Len(merger.files) >= 2
    /\ Len(inFlight) < MaxInFlight
    /\ merger' = [merger EXCEPT
                     !.processingState = "PROCESSING",
                     !.error = NoMessage,
                     !.mergedAudioUrl = NoUrl,
                     !.progressMessage =
                         Message("Decoding i/n: name...", <<1, Len(merger.files)>>)]
    /\ inFlight' = Append(inFlight, Invocation("Merger", merger.files, TRUE))
    /\ UNCHANGED <<app, urls>>
    /\ UNCHANGED <<lamejs, fn, pace, merge, invocations>>

\* setProgressMessage called by an invocation: it is lost on a Merger that
\* has unmounted.
mergerProgress(m, inv, message) ==
    IF inv.mounted THEN [m EXCEPT !.progressMessage = message] ELSE m

\* audioProcessor.ts 172-179: a decode of an invocation resolved; the next
\* file's decode or the validation stage is reported.
Merger_decodeResolved ==
    /\ \E k \in 1..Len(inFlight) :
          LET inv == inFlight[k]
              n == Len(inv.files)
          IN  /\ inv.caller = "Merger" /\ inv.step < n
              /\ inFlight' = [inFlight EXCEPT ![k].step = inv.step + 1]
              /\ merger' = mergerProgress(merger, inv,
                              IF inv.step + 1 < n
                              THEN Message("Decoding i/n: name...", <<inv.step + 2, n>>)
                              ELSE Message("Step n+1/total: Validating audio properties...",
                                           <<n + 1, n + 2>>))
    /\ UNCHANGED <<app, urls>>
    /\ UNCHANGED <<lamejs, fn, pace, merge, invocations>>

\* audioProcessor.ts 181-196: the first timer fired and the decoded buffers
\* were found compatible; the merge stage is reported.
Merger_validated ==
    /\ \E k \in 1..Len(inFlight) :
          LET inv == inFlight[k]
              n == Len(inv.files)
          IN  /\ inv.caller = "Merger" /\ inv.step = n
              /\ inFlight' = [inFlight EXCEPT ![k].step = n + 1]
              /\ merger' = mergerProgress(merger, inv,
                              Message("Step n+2/total: Merging audio...", <<n + 2, n + 2>>))
    /\ UNCHANGED <<app, urls>>
    /\ UNCHANGED <<lamejs, fn, pace, merge, invocations>>

\* Merger.tsx 63-68: mergeAudioFiles resolved.  The URL is created whether
\* or not the Merger is still mounted; the state setters are lost if not.
Merger_mergeResolved ==
    /\ \E k \in 1..Len(inFlight) :
          LET inv == inFlight[k]
          IN  /\ inv.caller = "Merger" /\ inv.step = Len(inv.files) + 1
              /\ Cardinality(urls) < MaxUrls
              /\ urls' = urls \cup {createObjectURL(urls)}
              /\ merger' = (IF inv.mounted
                            THEN [merger EXCEPT
                                     !.mergedAudioUrl = createObjectURL(urls),
                                     !.mergedFileName = Message("merged_audio_time.wav", <<>>),
                                     !.processingState = "DONE",
                                     !.progressMessage = Message("Merging complete!", <<>>)]
                            ELSE merger)
              /\ inFlight' = WithoutAt(inFlight, k)
    /\ UNCHANGED app
    /\ UNCHANGED <<lamejs, fn, pace, merge, invocations>>

\* The errors mergeAudioFiles rejects with after step awaits of n resolved:
\* from a decode, from the validation, from the encoder.
MergeErrors(step, n) ==
    IF step < n THEN {"DecodeFailure"}
    ELSE IF step = n THEN {"SampleRateMismatch"}
    ELSE {"EncoderUnavailable"}

\* Merger.tsx 69-75: mergeAudioFiles rejected.
Merger_mergeRejected ==
    /\ \E k \in 1..Len(inFlight) :
          LET inv == inFlight[k]
          IN  /\ inv.caller = "Merger"
              /\ \E err \in MergeErrors(inv.step, Len(inv.files)) :
                    merger' = (IF inv.mounted
                               THEN [merger EXCEPT !.error = Message(err, <<>>),
                                                   !.processingState = "ERROR",
                                                   !.progressMessage = NoMessage]
                               ELSE merger)
              /\ inFlight' = WithoutAt(inFlight, k)
    /\ UNCHANGED <<app, urls>>
    /\ UNCHANGED <<lamejs, fn, pace, merge, invocations>>

\* Merger.tsx 78-86: "Merge More Files" (shown when Done with a merged URL)
\* or "Try Again" (shown on Error) is clicked.
Merger_handleReset ==
    /\ merger.mounted
    /\ \/ merger.processingState = "ERROR"
       \/ merger.processingState = "DONE" /\ merger.mergedAudioUrl # NoUrl
    /\ merger' = [merger EXCEPT !.files = <<>>, !.processingState = "IDLE",
                                !.error = NoMessage, !.progressMessage = NoMessage,
                                !.mergedAudioUrl = NoUrl, !.mergedFileName = NoMessage]
    /\ urls' = revokeIfSet(urls, merger.mergedAudioUrl)
    /\ inFlight' = stateArrayReplaced(inFlight)
    /\ UNCHANGED app
    /\ UNCHANGED <<lamejs, fn, pace, merge, invocations>>

(***************************************************************************)
(* The stages' writes to memory.  heap is the memory the stages share: a   *)
(* sequence of objects, each the sequence of an AudioBuffer's channel      *)
(* arrays (or a single Int16Array); an object's id is its position.        *)
(* getChannelData returns the buffer's own array and subarray a view of    *)
(* it, so a set() on either writes into the object itself.                 *)
(***************************************************************************)
\* A new object is allocated behind the existing ones.
heapNew(heap) == Len(heap) + 1

\* buffer.getChannelData(channel).set(src, offset) for the object id.
heapSet(heap, id, channel, src, offset) ==
    [heap EXCEPT ![id][channel + 1] = SetAt(@, src, offset)]

\* Line 74 with a mutation: newData is the channel of the original buffer.
newDataOfOriginal(originalBuffer, newBuffer) == originalBuffer

\* Line 74: const newData = newBuffer.getChannelData(channel), the object
\* that line 80 writes into.
newDataOf(originalBuffer, newBuffer) == newBuffer

\* Lines 75-86 for one channel; a set() that does not fit throws and ends
\* the writes.
RECURSIVE heapCopyChunks(_, _, _, _, _, _, _)
heapCopyChunks(heap, originalBuffer, newBuffer, channel, chunks, currentPosition, pauseMultiplier) ==
    IF chunks = <<>> THEN [heap |-> heap, ok |-> TRUE]
    ELSE LET chunk == Head(chunks)
             chunkDuration == chunk.end - chunk.start
             chunkData == Subarray(heap[originalBuffer][channel + 1],
                                   chunk.start, chunk.end)
             newData == newDataOf(originalBuffer, newBuffer)
             at == writePosition(currentPosition)
         IN  IF ~SetFits(heap[newData][channel + 1], chunkData, at)
             THEN [heap |-> heap, ok |-> FALSE]
             ELSE heapCopyChunks(heapSet(heap, newData, channel, chunkData, at),
                                 originalBuffer, newBuffer, channel, Tail(chunks),
                                 advance(currentPosition, chunkDuration, pauseMultiplier),
                                 pauseMultiplier)

\* Lines 71-87: the channels in turn.
RECURSIVE heapCopyChannels(_, _, _, _, _, _)
heapCopyChannels(heap, originalBuffer, newBuffer, channel, chunks, pauseMultiplier) ==
    IF channel >= Len(heap[originalBuffer]) THEN heap
    ELSE LET r == heapCopyChunks(heap, originalBuffer, newBuffer, channel, chunks, 0,
                                 pauseMultiplier)
         IN  IF ~r.ok THEN r.heap
             ELSE heapCopyChannels(r.heap, originalBuffer, newBuffer, channel + 1,
                                   chunks, pauseMultiplier)

\* createPaddedAudio (52-90) on the heap: nothing is allocated when it
\* throws at line 64 or in createBuffer.
heapCreatePaddedAudio(heap, originalBuffer, chunks, settings) ==
    LET total == totalLength(chunks, settings.pauseMultiplier)
        len == paddedLength(total)
    IN  IF total = 0 \/ len <= 0 THEN heap
        ELSE heapCopyChannels(
                 Append(heap, [c \in 1..Len(heap[originalBuffer]) |-> Zeros(len)]),
                 originalBuffer, heapNew(heap), 0, chunks, settings.pauseMultiplier)

\* Line 203: mergedBuffer.getChannelData(channel).set(
\* buffer.getChannelData(channel), offset), for the channels of one buffer.
RECURSIVE heapMergeChannels(_, _, _, _, _)
heapMergeChannels(heap, mergedBuffer, buffer, channel, offset) ==
    IF channel >= Len(heap[mergedBuffer]) THEN heap
    ELSE heapMergeChannels(
             heapSet(heap, mergedBuffer, channel, heap[buffer][channel + 1], offset),
             mergedBuffer, buffer, channel + 1, offset)

\* Lines 201-206: the buffers from position k on.
RECURSIVE heapMergeFrom(_, _, _, _, _)
heapMergeFrom(heap, mergedBuffer, decodedBuffers, k, offset) ==
    IF k > Len(decodedBuffers) THEN heap
    ELSE heapMergeFrom(
             heapMergeChannels(heap, mergedBuffer, decodedBuffers[k], 0, offset),
             mergedBuffer, decodedBuffers, k + 1,
             offset + Len(heap[decodedBuffers[k]][1]))

\* Lines 181-206 on the heap, for validated buffers given by their ids.
heapMerge(heap, decodedBuffers) ==
    LET lengths == [k \in 1..Len(decodedBuffers) |->
                       [length |-> Len(heap[decodedBuffers[k]][1])]]
    IN  heapMergeFrom(
            Append(heap, [c \in 1..Len(heap[decodedBuffers[1]]) |->
                             Zeros(sumLengths(lengths))]),
            heapNew(heap), decodedBuffers, 1, 0)

\* Line 105: Math.max(-1, Math.min(1, x)) * 32767 for an amplitude level.
convertSample(x) == (IF x > 1 THEN 1 ELSE IF x < -1 THEN -1 ELSE x) * 32767

\* Lines 102-108: convertBuffer fills a new Int16Array from the channel.
heapConvertBuffer(heap, audioBuffer, channel) ==
    Append(heap, <<[k \in 1..Len(heap[audioBuffer][channel + 1]) |->
                      convertSample(heap[audioBuffer][channel + 1][k])]>>)

\* Lines 110-111: the first channel, and the second one if there is one.
heapEncode(heap, audioBuffer) ==
    LET left == heapConvertBuffer(heap, audioBuffer, 0)
    IN  IF Len(heap[audioBuffer]) > 1
        THEN heapConvertBuffer(left, audioBuffer, 1)
        ELSE left

(***************************************************************************)
(* The pure functions applied to drawn inputs.  fn is the call: its        *)
(* arguments, whether it has returned, and what it returned or threw.      *)
(***************************************************************************)
\* What a run of the stages was given, as it was when handed over.
NoGiven == [buffers |-> <<>>, settings |-> NoSettings]

\* The stages that allocate, and the object each one made (0: none).
NoneMade == [createPaddedAudio |-> 0, mergeAudioFiles |-> 0, encodeMp3 |-> 0]

NoCall ==
    [name |-> "none", audioBuffer |-> NoBuffer, chunks |-> <<>>,
     settings |-> NoSettings, buffers |-> <<>>, mp3bufs |-> <<>>,
     returned |-> FALSE, result |-> <<>>, error |-> NoError, newBuffer |-> NoBuffer,
     blob |-> NoBlob, heap |-> <<>>, given |-> NoGiven, done |-> {}, made |-> NoneMade]

\* Every list of chunks with lo <= start < end <= len, ascending and
\* non-overlapping (the SpeechChunk invariant), the empty list included.
RECURSIVE ChunkLists(_, _)
ChunkLists(lo, len) ==
    {<<>>} \cup
    UNION {UNION {{<<SpeechChunk(s, e)>> \o rest : rest \in ChunkLists(e, len)} :
                     e \in (s + 1)..len} : s \in lo..(len - 1)}

\* detectSpeechChunks reads the first channel and never pauseMultiplier.
InitSegment ==
    /\ \E b \in MonoBuffers(MaxLen) :
       \E s \in {t \in SettingsSet : t.pauseMultiplier = 0} :
          fn = [NoCall EXCEPT !.name = "detectSpeechChunks", !.audioBuffer = b,
                              !.settings = s]
    /\ lamejs = TRUE /\ pace = NoPace /\ merge = NoMerge
    /\ CallersInitial /\ invocations = NoInvocations

\* createPaddedAudio reads neither silenceThreshold nor minSilenceDuration.
InitResynth ==
    /\ \E b \in Buffers(MaxResynthLen) :
       \E cs \in ChunkLists(0, b.length) :
       \E s \in {t \in SettingsSet : t.silenceThreshold = 1 /\ t.minSilenceDuration = 1} :
          fn = [NoCall EXCEPT !.name = "createPaddedAudio", !.audioBuffer = b,
                              !.chunks = cs, !.settings = s]
    /\ lamejs = TRUE /\ pace = NoPace /\ merge = NoMerge
    /\ CallersInitial /\ invocations = NoInvocations

\* pauseMultiplier values below zero, scaled: createPaddedAudio takes any
\* number, the settings panel alone keeps it within 0.5 and 3.
NegativePauseMultipliers == {-4, -3, -2, -1}

\* createPaddedAudio called with a pauseMultiplier of either sign.
InitResynthSigned ==
    /\ \E b \in MonoBuffers(MaxResynthLen) :
       \E cs \in ChunkLists(0, b.length) :
       \E pm \in PauseMultipliers \cup NegativePauseMultipliers :
          fn = [NoCall EXCEPT !.name = "createPaddedAudio", !.audioBuffer = b,
                              !.chunks = cs,
                              !.settings = [silenceThreshold |-> 1,
                                            minSilenceDuration |-> 1,
                                            pauseMultiplier |-> pm]]
    /\ lamejs = TRUE /\ pace = NoPace /\ merge = NoMerge
    /\ CallersInitial /\ invocations = NoInvocations

\* The stages run on two decoded buffers of one rate and channel count
\* (mono, or stereo with the second channel the first one inverted).
InitMemory ==
    /\ \E r \in SampleRates : \E stereo \in BOOLEAN :
       \E ds \in [1..2 -> SeqsOf(Samples, 1, MaxMergeLen)] :
       \E s \in SettingsSet :
          LET bs == [k \in 1..2 |->
                       AudioBuffer(IF stereo THEN <<ds[k], Negated(ds[k])>>
                                             ELSE <<ds[k]>>, r)]
          IN  fn = [NoCall EXCEPT !.name = "stages", !.buffers = bs, !.settings = s,
                                  !.heap = [k \in 1..2 |-> bs[k].channels],
                                  !.given = [buffers |-> bs, settings |-> s]]
    /\ lamejs = TRUE /\ pace = NoPace /\ merge = NoMerge
    /\ CallersInitial /\ invocations = NoInvocations

\* A decoded buffer as the heap holds it now.
heapBuffer(id) == AudioBuffer(fn.heap[id], fn.buffers[id].sampleRate)

\* detectSpeechChunks reads channelData and writes only its own locals.
MemSegment ==
    /\ fn.name = "stages" /\ "detectSpeechChunks" \notin fn.done
    /\ fn' = [fn EXCEPT !.done = @ \cup {"detectSpeechChunks"},
                        !.chunks = detectSpeechChunks(heapBuffer(1), fn.settings)]
    /\ UNCHANGED <<lamejs, pace, merge>>
    /\ UNCHANGED <<app, merger, inFlight, urls, invocations>>

MemResynthesize ==
    /\ fn.name = "stages" /\ "detectSpeechChunks" \in fn.done
    /\ "createPaddedAudio" \notin fn.done
    /\ LET h == heapCreatePaddedAudio(fn.heap, 1, fn.chunks, fn.settings)
       IN  fn' = [fn EXCEPT !.done = @ \cup {"createPaddedAudio"},
                            !.heap = h,
                            !.made.createPaddedAudio =
                                IF Len(h) > Len(fn.heap) THEN Len(h) ELSE 0]
    /\ UNCHANGED <<lamejs, pace, merge>>
    /\ UNCHANGED <<app, merger, inFlight, urls, invocations>>

MemMerge ==
    /\ fn.name = "stages" /\ "mergeAudioFiles" \notin fn.done
    /\ LET h == heapMerge(fn.heap, <<1, 2>>)
       IN  fn' = [fn EXCEPT !.done = @ \cup {"mergeAudioFiles"},
                            !.heap = h, !.made.mergeAudioFiles = Len(h)]
    /\ UNCHANGED <<lamejs, pace, merge>>
    /\ UNCHANGED <<app, merger, inFlight, urls, invocations>>

\* encodeMp3 is given the buffer a stage has made.
MemEncode ==
    /\ fn.name = "stages" /\ "encodeMp3" \notin fn.done
    /\ \E stage \in {"createPaddedAudio", "mergeAudioFiles"} :
          /\ fn.made[stage] # 0
          /\ fn' = [fn EXCEPT !.done = @ \cup {"encodeMp3"},
                              !.heap = heapEncode(fn.heap, fn.made[stage]),
                              !.made.encodeMp3 = fn.made[stage]]
    /\ UNCHANGED <<lamejs, pace, merge>>
    /\ UNCHANGED <<app, merger, inFlight, urls, invocations>>

Segment ==
    /\ fn.name = "detectSpeechChunks" /\ ~fn.returned
    /\ fn' = [fn EXCEPT !.returned = TRUE,
                        !.result = detectSpeechChunks(fn.audioBuffer, fn.settings)]
    /\ UNCHANGED <<lamejs, pace, merge>>
    /\ UNCHANGED <<app, merger, inFlight, urls, invocations>>

Resynthesize ==
    /\ fn.name = "createPaddedAudio" /\ ~fn.returned
    /\ LET r == createPaddedAudio(fn.audioBuffer, fn.chunks, fn.settings)
       IN  fn' = [fn EXCEPT !.returned = TRUE, !.error = r.error,
                            !.newBuffer = r.buffer]
    /\ UNCHANGED <<lamejs, pace, merge>>
    /\ UNCHANGED <<app, merger, inFlight, urls, invocations>>

\* Buffer lengths around the block boundaries: one sample, and one less
\* than, exactly and one more than each whole number of blocks.
EncodeLengths ==
    {n \in UNION {{k * sampleBlockSize - 1, k * sampleBlockSize, k * sampleBlockSize + 1} :
                     k \in 0..(MaxEncoderCalls - 2)} : n >= 1}

\* encodeMp3 is given silent buffers: the model keeps the ranges fed to the
\* encoder, not the samples.
InitEncode ==
    /\ \E c \in {1, 2} : \E n \in EncodeLengths : \E r \in SampleRates :
          fn = [NoCall EXCEPT !.name = "encodeMp3",
                              !.audioBuffer = createBuffer(c, n, r)]
    /\ lamejs \in BOOLEAN /\ pace = NoPace /\ merge = NoMerge
    /\ CallersInitial /\ invocations = NoInvocations

\* The calls of a call list made on the encoder itself.
EncoderCalls(calls) == SelectSeq(calls, LAMBDA e : e.ev \in {"encodeBuffer", "flush"})

Encode ==
    /\ fn.name = "encodeMp3" /\ ~fn.returned
    /\ \E mp3bufs \in EncoderReturns(MaxEncoderCalls) :
          LET r == encodeMp3(fn.audioBuffer, lamejs, mp3bufs)
          IN  fn' = [fn EXCEPT !.returned = TRUE, !.result = r.calls,
                               !.error = r.error, !.blob = r.blob,
                               !.mp3bufs = SubSeq(mp3bufs, 1, Len(EncoderCalls(r.calls)))]
    /\ UNCHANGED <<lamejs, pace, merge>>
    /\ UNCHANGED <<app, merger, inFlight, urls, invocations>>

\* The buffers a merge is given after validation: three of them, all mono
\* or all stereo with the second channel the first one inverted, one rate.
InitMergeBuffers ==
    /\ \E r \in SampleRates : \E stereo \in BOOLEAN :
       \E ds \in [1..3 -> SeqsOf(Samples, 1, MaxMergeLen)] :
          fn = [NoCall EXCEPT
                   !.name = "mergeBuffers",
                   !.buffers = [k \in 1..3 |->
                                   AudioBuffer(IF stereo THEN <<ds[k], Negated(ds[k])>>
                                                         ELSE <<ds[k]>>, r)]]
    /\ lamejs = TRUE /\ pace = NoPace /\ merge = NoMerge
    /\ CallersInitial /\ invocations = NoInvocations

\* Two merges in a row: the first two buffers, then the outcome and the third.
MergeSequentially ==
    /\ fn.name = "mergeBuffers" /\ fn.newBuffer = NoBuffer
    /\ fn' = [fn EXCEPT !.newBuffer =
                 mergeBuffers(<<mergeBuffers(<<fn.buffers[1], fn.buffers[2]>>),
                                fn.buffers[3]>>),
                        !.returned = (fn.result # <<>>)]
    /\ UNCHANGED <<lamejs, pace, merge>>
    /\ UNCHANGED <<app, merger, inFlight, urls, invocations>>

\* One merge of the three buffers.
MergeAtOnce ==
    /\ fn.name = "mergeBuffers" /\ fn.result = <<>>
    /\ fn' = [fn EXCEPT !.result = <<mergeBuffers(fn.buffers)>>,
                        !.returned = (fn.newBuffer # NoBuffer)]
    /\ UNCHANGED <<lamejs, pace, merge>>
    /\ UNCHANGED <<app, merger, inFlight, urls, invocations>>

NextSegment == Segment

NextResynth == Resynthesize

NextEncode == Encode

SpecEncode == InitEncode /\ [][NextEncode]_vars

NextMergeBuffers == MergeSequentially \/ MergeAtOnce

SpecMergeBuffers == InitMergeBuffers /\ [][NextMergeBuffers]_vars

SpecSegment == InitSegment /\ [][NextSegment]_vars

SpecResynth == InitResynth /\ [][NextResynth]_vars

NextMemory == MemSegment \/ MemResynthesize \/ MemMerge \/ MemEncode

SpecMemory == InitMemory /\ [][NextMemory]_vars

SpecResynthSigned == InitResynthSigned /\ [][NextResynth]_vars

(***************************************************************************)
(* One invocation of either pipeline.  The decoder and the encoder library *)
(* are external: a decode resolves with any buffer of the bounded sets or  *)
(* rejects, and lamejs is loaded or not.                                   *)
(***************************************************************************)
\* Buffers the decoder may hand to processAudioFile: mono, or stereo with
\* the second channel the first one inverted.
PaceDecodeOutcomes ==
    MonoBuffers(MaxPaceLen) \cup
    {AudioBuffer(<<d, Negated(d)>>, r) :
        d \in SeqsOf(Samples, 1, MaxPaceLen), r \in SampleRates}

\* Sample k of channel c of file f: distinct for distinct (f, c, k).
Tag(f, c, k) == 100 * f + 10 * c + k

\* Buffers the decoder may hand to mergeAudioFiles for file f.
MergeDecodeOutcomes(f) ==
    {AudioBuffer([c \in 1..nc |-> [k \in 1..len |-> Tag(f, c, k)]], r) :
        nc \in 1..2, len \in 1..MaxMergeLen, r \in SampleRates}

PaceInits == {[NoPace EXCEPT !.pc = "idle", !.settings = s] : s \in SettingsSet}

MergeInits ==
    {[NoMerge EXCEPT !.pc = "idle", !.files = [k \in 1..n |-> k]] : n \in 0..MaxFiles}

Init ==
    /\ lamejs \in BOOLEAN
    /\ fn = NoCall
    /\ CallersInitial /\ invocations = NoInvocations
    /\ \/ pace \in PaceInits /\ merge = NoMerge
       \/ pace = NoPace /\ merge \in MergeInits

ProcessAudioFile ==
    /\ pace.pc = "idle"
    /\ pace' = paceCall(pace)
    /\ UNCHANGED <<lamejs, fn, merge>>
    /\ UNCHANGED <<app, merger, inFlight, urls, invocations>>

PaceDecodeResolved ==
    /\ pace.pc = "decoding"
    /\ \E buffer \in PaceDecodeOutcomes : \E mp3bufs \in EncoderReturns(MaxEncoderCalls) :
          pace' = paceDecoded(pace, buffer, lamejs, mp3bufs)
    /\ UNCHANGED <<lamejs, fn, merge>>
    /\ UNCHANGED <<app, merger, inFlight, urls, invocations>>

PaceDecodeRejected ==
    /\ pace.pc = "decoding"
    /\ pace' = paceDecodeFailed(pace)
    /\ UNCHANGED <<lamejs, fn, merge>>
    /\ UNCHANGED <<app, merger, inFlight, urls, invocations>>

MergeAudioFiles ==
    /\ merge.pc = "idle"
    /\ merge' = mergeCall(merge)
    /\ UNCHANGED <<lamejs, fn, pace>>
    /\ UNCHANGED <<app, merger, inFlight, urls, invocations>>

MergeDecodeResolved ==
    /\ merge.pc = "decoding"
    /\ \E buffer \in MergeDecodeOutcomes(merge.files[merge.i + 1]) :
          merge' = mergeDecoded(merge, buffer)
    /\ UNCHANGED <<lamejs, fn, pace>>
    /\ UNCHANGED <<app, merger, inFlight, urls, invocations>>

MergeDecodeRejected ==
    /\ merge.pc = "decoding"
    /\ merge' = mergeDecodeFailed(merge)
    /\ UNCHANGED <<lamejs, fn, pace>>
    /\ UNCHANGED <<app, merger, inFlight, urls, invocations>>

MergeValidateTimer ==
    /\ merge.pc = "validating"
    /\ merge' = mergeValidate(merge)
    /\ UNCHANGED <<lamejs, fn, pace>>
    /\ UNCHANGED <<app, merger, inFlight, urls, invocations>>

MergeConcatTimer ==
    /\ merge.pc = "merging"
    /\ \E mp3bufs \in EncoderReturns(MaxEncoderCalls) :
          merge' = mergeConcat(merge, lamejs, mp3bufs)
    /\ UNCHANGED <<lamejs, fn, pace>>
    /\ UNCHANGED <<app, merger, inFlight, urls, invocations>>

Next ==
    \/ ProcessAudioFile
    \/ PaceDecodeResolved
    \/ PaceDecodeRejected
    \/ MergeAudioFiles
    \/ MergeDecodeResolved
    \/ MergeDecodeRejected
    \/ MergeValidateTimer
    \/ MergeConcatTimer

Spec == Init /\ [][Next]_vars

(***************************************************************************)
(* The callers under every sequence of user events and settlements.        *)
(***************************************************************************)
InitUI ==
    /\ CallersInitial /\ invocations = NoInvocations
    /\ lamejs = TRUE /\ fn = NoCall /\ pace = NoPace /\ merge = NoMerge

NextUI ==
    \/ App_handleFileSelect
    \/ App_setSettings
    \/ App_handleProcessAudio
    \/ App_processResolved
    \/ App_processRejected
    \/ App_handleReset
    \/ App_handleModeChange
    \/ Merger_handleFileSelect
    \/ Merger_handleRemoveFile
    \/ Merger_handleDragSort
    \/ Merger_handleMerge
    \/ Merger_decodeResolved
    \/ Merger_validated
    \/ Merger_mergeResolved
    \/ Merger_mergeRejected
    \/ Merger_handleReset

SpecUI == InitUI /\ [][NextUI]_vars

(***************************************************************************)
(* Two invocations side by side.  Each entry of invocations is one of them:*)
(* the record it started from, its record now, and what the decoder, the   *)
(* timers and the encoder have delivered to it so far.  JavaScript runs    *)
(* one continuation at a time, so a step of one invocation (the code       *)
(* between two awaits) is one action.                                      *)
(***************************************************************************)
Call(kind, start) ==
    [kind |-> kind, start |-> start, inv |-> start, called |-> FALSE,
     outcomes |-> <<>>, timers |-> 0, mp3bufs |-> <<>>]

\* Decode outcomes of a processAudioFile run side by side: mono buffers of
\* one rate without speech, with one chunk and with two.
SidePaceOutcomes ==
    {AudioBuffer(<<d>>, MinOf(SampleRates)) :
        d \in {<<0>>, <<-3>>, <<0, -3, 1>>, <<-3, 0, 0, -3>>}}

\* Decode outcomes of file f of a mergeAudioFiles run side by side: one
\* sample per channel, of either channel count and rate.
SideMergeOutcomes(f) == {b \in MergeDecodeOutcomes(f) : b.length = 1}

\* The ways to call processAudioFile side by side.
SidePaceCalls ==
    {Call("processAudioFile", [NoPace EXCEPT !.pc = "idle", !.settings = s]) :
        s \in {t \in SettingsSet : t.silenceThreshold = 1 /\ t.minSilenceDuration = 1}}

\* mergeAudioFiles called with the two files first and first + 1.
SideMergeCall(first) ==
    Call("mergeAudioFiles", [NoMerge EXCEPT !.pc = "idle", !.files = <<first, first + 1>>])

InitSide ==
    /\ lamejs \in BOOLEAN
    /\ fn = NoCall /\ pace = NoPace /\ merge = NoMerge
    /\ CallersInitial
    /\ \E a \in SidePaceCalls \cup {SideMergeCall(1)} :
       \E b \in SidePaceCalls \cup {SideMergeCall(3)} :
          invocations = <<a, b>>

\* Lines 136-140, 160-163 with a mutation: the locals are module-level
\* variables, shared by the invocations of one function.
ownStateShared(k) ==
    IF invocations[1].kind = invocations[k].kind THEN invocations[1].inv ELSE invocations[k].inv

\* Lines 136-140, 160-163: a continuation of invocation k resumes with the
\* parameters and locals of that invocation.
ownState(k) == invocations[k].inv

\* The encoder returns an invocation has consumed.
usedReturns(inv, mp3bufs) == SubSeq(mp3bufs, 1, Len(EncoderCalls(inv.log)))

Side_ProcessAudioFile ==
    \E k \in 1..Len(invocations) :
        /\ invocations[k].kind = "processAudioFile" /\ ownState(k).pc = "idle"
        /\ invocations' = [invocations EXCEPT ![k].inv = paceCall(ownState(k)), ![k].called = TRUE]
        /\ UNCHANGED <<lamejs, fn, pace, merge>>
        /\ UNCHANGED <<app, merger, inFlight, urls>>

Side_PaceDecodeResolved ==
    \E k \in 1..Len(invocations) :
        /\ invocations[k].kind = "processAudioFile" /\ ownState(k).pc = "decoding"
        /\ \E buffer \in SidePaceOutcomes : \E mp3bufs \in EncoderReturns(MaxEncoderCalls) :
              LET inv == paceDecoded(ownState(k), buffer, lamejs, mp3bufs)
              IN  invocations' = [invocations EXCEPT
                                     ![k].inv = inv,
                                     ![k].outcomes = Append(@, buffer),
                                     ![k].mp3bufs = usedReturns(inv, mp3bufs)]
        /\ UNCHANGED <<lamejs, fn, pace, merge>>
        /\ UNCHANGED <<app, merger, inFlight, urls>>

Side_PaceDecodeRejected ==
    \E k \in 1..Len(invocations) :
        /\ invocations[k].kind = "processAudioFile" /\ ownState(k).pc = "decoding"
        /\ invocations' = [invocations EXCEPT ![k].inv = paceDecodeFailed(ownState(k)),
                                   ![k].outcomes = Append(@, NoBuffer)]
        /\ UNCHANGED <<lamejs, fn, pace, merge>>
        /\ UNCHANGED <<app, merger, inFlight, urls>>

Side_MergeAudioFiles ==
    \E k \in 1..Len(invocations) :
        /\ invocations[k].kind = "mergeAudioFiles" /\ ownState(k).pc = "idle"
        /\ invocations' = [invocations EXCEPT ![k].inv = mergeCall(ownState(k)), ![k].called = TRUE]
        /\ UNCHANGED <<lamejs, fn, pace, merge>>
        /\ UNCHANGED <<app, merger, inFlight, urls>>

Side_MergeDecodeResolved ==
    \E k \in 1..Len(invocations) :
        /\ invocations[k].kind = "mergeAudioFiles" /\ ownState(k).pc = "decoding"
        /\ \E buffer \in SideMergeOutcomes(ownState(k).files[ownState(k).i + 1]) :
              invocations' = [invocations EXCEPT ![k].inv = mergeDecoded(ownState(k), buffer),
                                     ![k].outcomes = Append(@, buffer)]
        /\ UNCHANGED <<lamejs, fn, pace, merge>>
        /\ UNCHANGED <<app, merger, inFlight, urls>>

Side_MergeDecodeRejected ==
    \E k \in 1..Len(invocations) :
        /\ invocations[k].kind = "mergeAudioFiles" /\ ownState(k).pc = "decoding"
        /\ invocations' = [invocations EXCEPT ![k].inv = mergeDecodeFailed(ownState(k)),
                                   ![k].outcomes = Append(@, NoBuffer)]
        /\ UNCHANGED <<lamejs, fn, pace, merge>>
        /\ UNCHANGED <<app, merger, inFlight, urls>>

Side_MergeValidateTimer ==
    \E k \in 1..Len(invocations) :
        /\ invocations[k].kind = "mergeAudioFiles" /\ ownState(k).pc = "validating"
        /\ invocations' = [invocations EXCEPT ![k].inv = mergeValidate(ownState(k)), ![k].timers = 1]
        /\ UNCHANGED <<lamejs, fn, pace, merge>>
        /\ UNCHANGED <<app, merger, inFlight, urls>>

Side_MergeConcatTimer ==
    \E k \in 1..Len(invocations) :
        /\ invocations[k].kind = "mergeAudioFiles" /\ ownState(k).pc = "merging"
        /\ \E mp3bufs \in EncoderReturns(MaxEncoderCalls) :
              LET inv == mergeConcat(ownState(k), lamejs, mp3bufs)
              IN  invocations' = [invocations EXCEPT ![k].inv = inv, ![k].timers = 2,
                                         ![k].mp3bufs = usedReturns(inv, mp3bufs)]
        /\ UNCHANGED <<lamejs, fn, pace, merge>>
        /\ UNCHANGED <<app, merger, inFlight, urls>>

NextSide ==
    \/ Side_ProcessAudioFile
    \/ Side_PaceDecodeResolved
    \/ Side_PaceDecodeRejected
    \/ Side_MergeAudioFiles
    \/ Side_MergeDecodeResolved
    \/ Side_MergeDecodeRejected
    \/ Side_MergeValidateTimer
    \/ Side_MergeConcatTimer

SpecSide == InitSide /\ [][NextSide]_vars

\* processAudioFile run alone from c.start with what c was delivered.
alonePace(c) ==
    LET a == paceCall(c.start)
    IN  IF ~c.called THEN c.start
        ELSE IF c.outcomes = <<>> THEN a
        ELSE IF c.outcomes[1] = NoBuffer THEN paceDecodeFailed(a)
        ELSE paceDecoded(a, c.outcomes[1], lamejs, c.mp3bufs)

\* The decode loop of mergeAudioFiles run alone on the outcomes delivered.
RECURSIVE aloneDecodes(_, _)
aloneDecodes(inv, outcomes) ==
    IF outcomes = <<>> \/ inv.pc # "decoding" THEN inv
    ELSE aloneDecodes(IF Head(outcomes) = NoBuffer THEN mergeDecodeFailed(inv)
                                                   ELSE mergeDecoded(inv, Head(outcomes)),
                      Tail(outcomes))

\* mergeAudioFiles run alone from c.start with what c was delivered.
aloneMerge(c) ==
    LET a == aloneDecodes(mergeCall(c.start), c.outcomes)
        b == IF c.timers >= 1 THEN mergeValidate(a) ELSE a
    IN  IF ~c.called THEN c.start
        ELSE IF c.timers >= 2 THEN mergeConcat(b, lamejs, c.mp3bufs)
        ELSE b

alone(c) == IF c.kind = "processAudioFile" THEN alonePace(c) ELSE aloneMerge(c)

(***************************************************************************)
(* Claims about the pure functions.                                        *)
(***************************************************************************)
SegmentReturned == fn.name = "detectSpeechChunks" /\ fn.returned

ResynthReturned == fn.name = "createPaddedAudio" /\ fn.returned

\* Samples in the chunks before chunk k (1-based) of a chunk list.
RECURSIVE DurationBefore(_, _)
DurationBefore(chunks, k) ==
    IF k <= 1 THEN 0
    ELSE DurationBefore(chunks, k - 1) + (chunks[k - 1].end - chunks[k - 1].start)

\* C1: the chunks detectSpeechChunks returns are strictly ascending and
\* non-overlapping (each end <= the next start), and each chunk has
\* 0 <= start < end <= buffer length.
C1_ChunksOrderedInBounds ==
    SegmentReturned =>
        LET cs == fn.result
        IN  /\ \A k \in 1..Len(cs) :
                  /\ 0 <= cs[k].start
                  /\ cs[k].start < cs[k].end
                  /\ cs[k].end <= fn.audioBuffer.length
            /\ \A k \in 1..(Len(cs) - 1) :
                  /\ cs[k].start < cs[k + 1].start
                  /\ cs[k].end <= cs[k + 1].start

\* Witness of C1: a scan that returned two chunks, the first closed by a
\* confirmed silence and the second by the end of the buffer.
C1_Witness ==
    /\ SegmentReturned
    /\ Len(fn.result) = 2
    /\ fn.result[2].end = fn.audioBuffer.length

\* C2: when every first-channel sample is below silenceThreshold in
\* magnitude, detectSpeechChunks returns the empty sequence.
C2_AllQuietNoChunks ==
    (/\ SegmentReturned
     /\ \A k \in 1..fn.audioBuffer.length :
            Abs(fn.audioBuffer.channels[1][k]) < fn.settings.silenceThreshold)
        => fn.result = <<>>

\* Witness of C2: a returned scan of a buffer of several samples, all below
\* the threshold and not all zero.
C2_Witness ==
    /\ SegmentReturned
    /\ fn.audioBuffer.length >= 3
    /\ \A k \in 1..fn.audioBuffer.length :
           Abs(fn.audioBuffer.channels[1][k]) < fn.settings.silenceThreshold
    /\ \E k \in 1..fn.audioBuffer.length : fn.audioBuffer.channels[1][k] # 0
    /\ fn.result = <<>>

C4_Dest(k) ==
    Round(DurationBefore(fn.chunks, k) * (Den + fn.settings.pauseMultiplier))

C4_Dur(k) == fn.chunks[k].end - fn.chunks[k].start

HasEv(inv, ev) == \E k \in 1..Len(inv.log) : inv.log[k].ev = ev

HasProgress(inv, text) ==
    \E k \in 1..Len(inv.log) : inv.log[k].ev = "setProgress" /\ inv.log[k].text = text

\* Samples in the buffers before buffer k (1-based) of a list of buffers.
RECURSIVE LengthBefore(_, _)
LengthBefore(buffers, k) ==
    IF k <= 1 THEN 0 ELSE LengthBefore(buffers, k - 1) + buffers[k - 1].length

Compatible(buffers) ==
    \A k \in 1..Len(buffers) :
        /\ buffers[k].sampleRate = buffers[1].sampleRate
        /\ buffers[k].numberOfChannels = buffers[1].numberOfChannels

\* C5: when all inputs share the first input's sample rate and channel
\* count, the merged buffer's length is the sum of the input lengths and, in
\* every channel, input i's samples start at the sum of the lengths of the
\* inputs before it, in input-list order.
C5_MergeConcatenates ==
    (HasEv(merge, "createBuffer") /\ Compatible(merge.decodedBuffers))
        => LET bs == merge.decodedBuffers
               m == merge.mergedBuffer
           IN  /\ Len(bs) = Len(merge.files)
               /\ m.length = LengthBefore(bs, Len(bs) + 1)
               /\ m.numberOfChannels = bs[1].numberOfChannels
               /\ m.sampleRate = bs[1].sampleRate
               /\ \A c \in 1..m.numberOfChannels :
                    /\ Len(m.channels[c]) = m.length
                    /\ \A i \in 1..Len(bs) : \A k \in 1..bs[i].length :
                         m.channels[c][LengthBefore(bs, i) + k] = bs[i].channels[c][k]

\* Witness of C5: a returned merge of three stereo files of lengths 1, 2, 1.
C5_Witness ==
    /\ merge.pc = "returned"
    /\ Len(merge.decodedBuffers) = 3
    /\ merge.decodedBuffers[1].numberOfChannels = 2
    /\ merge.decodedBuffers[1].length = 1
    /\ merge.decodedBuffers[2].length = 2
    /\ merge.mergedBuffer.length = 4
    /\ merge.mergedBuffer.channels[2][4] = Tag(3, 2, 1)

\* C6: if any input's sample rate or channel count differs from the first
\* input's, mergeAudioFiles fails before the destination buffer is allocated
\* or any sample copied, never invokes the encoder and returns no output,
\* wherever in the list the mismatching input is.
C6_MismatchFailsBeforeCopy ==
    (merge.pc # "none" /\ ~Compatible(merge.decodedBuffers))
        => /\ merge.pc \in {"decoding", "validating", "threw"}
           /\ ~HasEv(merge, "createBuffer")
           /\ ~HasEv(merge, "set")
           /\ ~HasEv(merge, "encodeMp3")
           /\ merge.mergedBuffer = NoBuffer
           /\ merge.blob = NoBlob
           /\ (Len(merge.decodedBuffers) = Len(merge.files) /\ merge.pc = "threw")
                 => merge.error.kind \in {"SampleRateMismatch", "ChannelCountMismatch"}

\* Witness of C6: a merge of three files, the first two alike and the third
\* of another channel count, that failed validation.
C6_Witness ==
    /\ merge.pc = "threw"
    /\ Len(merge.decodedBuffers) = 3
    /\ Compatible(SubSeq(merge.decodedBuffers, 1, 2))
    /\ merge.decodedBuffers[3].sampleRate = merge.decodedBuffers[1].sampleRate
    /\ merge.decodedBuffers[3].numberOfChannels # merge.decodedBuffers[1].numberOfChannels
    /\ merge.error.kind = "ChannelCountMismatch"

\* C7: a merge validation failure carries both the expected value (the
\* first input's) and the actual value of the mismatching input.
C7_MismatchNamesBothValues ==
    (merge.pc = "threw"
     /\ merge.error.kind \in {"SampleRateMismatch", "ChannelCountMismatch"})
        => LET bs == merge.decodedBuffers
               named == {merge.error.names[a] : a \in 1..Len(merge.error.names)}
           IN  IF merge.error.kind = "SampleRateMismatch"
               THEN \E k \in 1..Len(bs) :
                       /\ bs[k].sampleRate # bs[1].sampleRate
                       /\ {bs[1].sampleRate, bs[k].sampleRate} \subseteq named
               ELSE \E k \in 1..Len(bs) :
                       /\ bs[k].numberOfChannels # bs[1].numberOfChannels
                       /\ {bs[1].numberOfChannels, bs[k].numberOfChannels} \subseteq named

\* C8: mergeAudioFiles called with fewer than two inputs fails with
\* InvalidInputCount before any progress message, decode or encoder call.
C8_TooFewInputsFailFirst ==
    (merge.pc \notin {"none", "idle"} /\ Len(merge.files) < 2)
        => /\ merge.pc = "threw"
           /\ merge.error.kind = "InvalidInputCount"
           /\ ~HasEv(merge, "setProgress")
           /\ ~HasEv(merge, "decodeAudio")
           /\ ~HasEv(merge, "encodeMp3")
           /\ merge.blob = NoBlob

\* Witness of C8: a merge called with exactly one file has thrown.
C8_Witness ==
    /\ merge.pc = "threw"
    /\ Len(merge.files) = 1
    /\ merge.error.kind = "InvalidInputCount"

\* C9: in processAudioFile, when segmentation yields no chunk the invocation
\* fails with NoSpeechDetected: createPaddedAudio and encodeMp3 are not
\* called, no stage 3 or stage 4 progress is reported, nothing is returned;
\* so createPaddedAudio is never called from it with an empty chunk list.
C9_NoSpeechAborts ==
    /\ (HasEv(pace, "detectSpeechChunks") /\ pace.speechChunks = <<>>)
          => /\ pace.pc = "threw"
             /\ pace.error.kind = "NoSpeechDetected"
             /\ ~HasEv(pace, "createPaddedAudio")
             /\ ~HasEv(pace, "encodeMp3")
             /\ ~HasProgress(pace, "Step 3/4: Reconstructing audio with pauses...")
             /\ ~HasProgress(pace, "Step 4/4: Encoding final MP3 file...")
             /\ pace.newBuffer = NoBuffer
             /\ pace.blob = NoBlob
    /\ \A k \in 1..Len(pace.log) :
          pace.log[k].ev = "createPaddedAudio" => pace.log[k].names # <<0>>

\* Witness of C9: a decoded buffer with a sample equal to the threshold and
\* none above it; the invocation has thrown NoSpeechDetected.
C9_Witness ==
    /\ pace.pc = "threw"
    /\ pace.error.kind = "NoSpeechDetected"
    /\ pace.originalBuffer.length >= 2
    /\ \E k \in 1..pace.originalBuffer.length :
          Abs(pace.originalBuffer.channels[1][k]) = pace.settings.silenceThreshold

\* What C10 says of one invocation in one state: the throw is the last thing
\* the invocation did, and a failed invocation has no output.
C10_Aborted(inv) ==
    /\ (inv.pc = "threw") = HasEv(inv, "throw")
    /\ (inv.pc = "threw") = (inv.error # NoError)
    /\ \A k \in 1..Len(inv.log) : inv.log[k].ev = "throw" => k = Len(inv.log)
    /\ inv.pc = "threw" => inv.blob = NoBlob

\* C10: in both pipelines, once a stage fails no later stage runs: nothing
\* more is decoded, reported or encoded, and no output is returned.
C10_FailureAborts ==
    /\ [](C10_Aborted(pace) /\ C10_Aborted(merge))
    /\ [][(pace.pc = "threw" => pace' = pace) /\ (merge.pc = "threw" => merge' = merge)]_vars

\* Witness of C10: the decode of the second of three files was rejected; the
\* third was never decoded and nothing was reported after the failure.
C10_Witness ==
    /\ merge.pc = "threw"
    /\ merge.error.kind = "DecodeFailure"
    /\ Len(merge.files) = 3
    /\ Len(merge.decodedBuffers) = 1
    /\ ~HasProgress(merge, "Step n+1/total: Validating audio properties...")

(***************************************************************************)
(* detectSpeechChunks against runs of silence.                             *)
(***************************************************************************)
\* The samples of the first channel of the call's buffer that exceed the
\* threshold, as 0-based indices.
LoudIndices ==
    LET channelData == getChannelData(fn.audioBuffer, 0)
    IN  {k \in 0..(Len(channelData) - 1) :
            Loud(channelData, k, fn.settings.silenceThreshold)}

\* Samples a..b (0-based) are all below the threshold.
QuietRun(a, b) ==
    LET channelData == getChannelData(fn.audioBuffer, 0)
    IN  /\ 0 <= a /\ a <= b /\ b < Len(channelData)
        /\ \A k \in a..b : Quiet(channelData, k, fn.settings.silenceThreshold)

\* Some run of below-threshold samples is longer than minSilenceSamples.
HasLongQuietRun ==
    \E a \in 0..(fn.audioBuffer.length - 1) : \E b \in a..(fn.audioBuffer.length - 1) :
        /\ QuietRun(a, b)
        /\ (b - a + 1) * Den > minSilenceSamples(fn.audioBuffer.sampleRate, fn.settings)

\* C11: a buffer with a sample above the threshold and no run of
\* below-threshold samples longer than minSilenceSamples yields exactly one
\* chunk, from the first above-threshold sample to the buffer length, a short
\* trailing silence included.
C11_OneChunkToBufferEnd ==
    (SegmentReturned /\ LoudIndices # {} /\ ~HasLongQuietRun)
        => fn.result = <<SpeechChunk(MinOf(LoudIndices), fn.audioBuffer.length)>>

\* The above-threshold samples at or after the end of the silence window
\* confirmed when chunk c was closed (c.end + minSilenceSamples).
LoudAfterWindow(c) ==
    {j \in LoudIndices :
        j * Den >= c.end * Den + minSilenceSamples(fn.audioBuffer.sampleRate, fn.settings)}

\* C12: every returned chunk starts at the first above-threshold sample
\* scanned while not in speech: the first one of the buffer for the first
\* chunk, the first one at or after the previous chunk's end plus
\* minSilenceSamples for a later chunk; so every above-threshold sample
\* lies inside some chunk.
C12_ChunkStartsAtFirstLoud ==
    SegmentReturned
        => LET cs == fn.result
           IN  /\ (LoudIndices # {}) = (cs # <<>>)
               /\ cs # <<>> => cs[1].start = MinOf(LoudIndices)
               /\ \A k \in 1..Len(cs) :
                    IF k < Len(cs)
                    THEN /\ LoudAfterWindow(cs[k]) # {}
                         /\ cs[k + 1].start = MinOf(LoudAfterWindow(cs[k]))
                    ELSE cs[k].end < fn.audioBuffer.length => LoudAfterWindow(cs[k]) = {}
               /\ \A j \in LoudIndices :
                    \E k \in 1..Len(cs) : cs[k].start <= j /\ j < cs[k].end

\* A short pause met while in speech: sample r - 1 lies in chunk c, samples
\* r..j-1 are a run of below-threshold samples that starts at r, and sample
\* j exceeds the threshold and lies in the minSilenceSamples window that
\* starts at r.
ShortPauseInSpeech(c, r, j) ==
    LET channelData == getChannelData(fn.audioBuffer, 0)
    IN  /\ 1 <= r /\ r < j /\ j < Len(channelData)
        /\ c.start <= r - 1 /\ r - 1 < c.end
        /\ ~Quiet(channelData, r - 1, fn.settings.silenceThreshold)
        /\ QuietRun(r, j - 1)
        /\ j \in LoudIndices
        /\ j * Den < r * Den + minSilenceSamples(fn.audioBuffer.sampleRate, fn.settings)

\* C13: while in speech, a run of below-threshold samples followed by an
\* above-threshold sample inside the minSilenceSamples window that starts at
\* the run's first sample never closes the chunk: the sample before the run
\* and the sample after it are in the same returned chunk.
C13_ShortPauseKeepsChunk ==
    SegmentReturned
        => \A k \in 1..Len(fn.result) :
           \A r \in 1..(fn.audioBuffer.length - 1) :
           \A j \in (r + 1)..(fn.audioBuffer.length - 1) :
              ShortPauseInSpeech(fn.result[k], r, j)
                 => (fn.result[k].start <= j /\ j < fn.result[k].end)

\* Witness of C13: two chunks were returned and the first holds a pause of
\* one quiet sample, one sample shorter than the window.
C13_Witness ==
    /\ SegmentReturned
    /\ Len(fn.result) = 2
    /\ minSilenceSamples(fn.audioBuffer.sampleRate, fn.settings) = 2 * Den
    /\ \E r \in 1..(fn.audioBuffer.length - 1) :
          ShortPauseInSpeech(fn.result[1], r, r + 1)

(***************************************************************************)
(* Claims about encodeMp3.                                                 *)
(***************************************************************************)
EncodeReturned == fn.name = "encodeMp3" /\ fn.returned

\* C14: encodeMp3 feeds the encoder consecutive blocks that partition the
\* sample indices 0..length-1 in ascending order, each of 1152 samples
\* except possibly the last, so ceil(length / 1152) encodeBuffer calls; the
\* right block of a stereo call covers the range of the left one; flush is
\* called exactly once, after the last block; the Blob holds, in call
\* order, exactly the non-empty fragments returned, the flush's one last.
C14_BlocksPartitionThenFlush ==
    (EncodeReturned /\ fn.error = NoError)
        => LET calls == EncoderCalls(fn.result)
               length == fn.audioBuffer.length
               n == (length + sampleBlockSize - 1) \div sampleBlockSize
               returned == [k \in 1..Len(calls) |->
                               [call |-> k, length |-> fn.mp3bufs[k]]]
           IN  /\ Len(calls) = n + 1
               /\ \A k \in 1..n :
                    /\ calls[k].ev = "encodeBuffer"
                    /\ calls[k].names[1] = (IF k = 1 THEN 0 ELSE calls[k - 1].names[2])
                    /\ calls[k].names[2] - calls[k].names[1]
                          = (IF k < n THEN sampleBlockSize
                             ELSE length - (n - 1) * sampleBlockSize)
                    /\ calls[k].names[2] > calls[k].names[1]
                    /\ IF fn.audioBuffer.numberOfChannels = 2
                       THEN /\ Len(calls[k].names) = 4
                            /\ calls[k].names[3] = calls[k].names[1]
                            /\ calls[k].names[4] = calls[k].names[2]
                       ELSE Len(calls[k].names) = 2
               /\ calls[n].names[2] = length
               /\ calls[n + 1].ev = "flush"
               /\ fn.blob.parts = SelectSeq(returned, LAMBDA f : f.length > 0)

\* Witness of C14: a stereo buffer of two blocks and one sample; the first
\* and third blocks returned nothing, the second block and the flush did.
C14_Witness ==
    /\ EncodeReturned
    /\ fn.audioBuffer.numberOfChannels = 2
    /\ fn.audioBuffer.length = 2 * sampleBlockSize + 1
    /\ fn.mp3bufs = <<0, 1, 0, 1>>
    /\ Len(fn.blob.parts) = 2
    /\ fn.blob.parts[2].call = 4

(***************************************************************************)
(* Claims about the stages of one invocation.                              *)
(***************************************************************************)
\* What C15 says of one invocation: encodeMp3 was called without lamejs, so
\* it threw EncoderUnavailable ('lamejs library is not loaded. ...') as its
\* first act, and the invocation ended there with no Blob.
C15_FailedUnconverted(inv) ==
    /\ inv.pc = "threw"
    /\ inv.error.kind = "EncoderUnavailable"
    /\ inv.blob = NoBlob
    /\ ~HasEv(inv, "Mp3Encoder")
    /\ ~HasEv(inv, "convertBuffer")
    /\ ~HasEv(inv, "encodeBuffer")
    /\ ~HasEv(inv, "flush")
    /\ inv.log[Len(inv.log) - 1].ev = "encodeMp3"
    /\ inv.log[Len(inv.log)] = Ev("throw", "EncoderUnavailable", <<>>)

\* C15: if lamejs is absent when encodeMp3 is called, encodeMp3 fails with
\* the error that names lamejs before it converts a channel or feeds a
\* sample to the encoder, and the enclosing processAudioFile or
\* mergeAudioFiles returns no output.
C15_EncoderUnavailableFailsFirst ==
    /\ (HasEv(pace, "encodeMp3") /\ ~lamejs) => C15_FailedUnconverted(pace)
    /\ (HasEv(merge, "encodeMp3") /\ ~lamejs) => C15_FailedUnconverted(merge)

\* Witness of C15: without lamejs, a pace invocation resynthesized its
\* buffer, called encodeMp3 and failed.
C15_Witness ==
    /\ ~lamejs
    /\ HasEv(pace, "createPaddedAudio")
    /\ HasEv(pace, "encodeMp3")
    /\ pace.newBuffer # NoBuffer
    /\ pace.pc = "threw"

\* The progress reports and stage calls of processAudioFile, in the order
\* of a run that succeeds: each stage's message, then the stage.
PaceOrder ==
    <<"Step 1/4: Decoding audio...", "decodeAudio",
      "Step 2/4: Analyzing for speech...", "detectSpeechChunks",
      "Step 3/4: Reconstructing audio with pauses...", "createPaddedAudio",
      "Step 4/4: Encoding final MP3 file...", "encodeMp3">>

\* The progress reports (by text) and stage calls (by name) in a log.
StageLog(log) ==
    LET kept == SelectSeq(log, LAMBDA e : e.ev \in {"setProgress", "decodeAudio",
                                                   "detectSpeechChunks",
                                                   "createPaddedAudio", "encodeMp3"})
    IN  [k \in 1..Len(kept) |->
            IF kept[k].ev = "setProgress" THEN kept[k].text ELSE kept[k].ev]

ProgressCount(log) == Len(SelectSeq(log, LAMBDA e : e.ev = "setProgress"))

\* C16: a successful processAudioFile reports exactly four progress
\* messages, for decode, segment, resynthesize and encode in that order,
\* each before its stage starts and after the stage before it completed; a
\* failing invocation reports a prefix of them.
C16_PaceProgressInOrder ==
    LET sl == StageLog(pace.log)
    IN  /\ Len(sl) <= Len(PaceOrder)
        /\ sl = SubSeq(PaceOrder, 1, Len(sl))
        /\ pace.pc = "returned" => (sl = PaceOrder /\ ProgressCount(pace.log) = 4)
        /\ pace.pc = "threw" => ProgressCount(pace.log) \in 1..4
        /\ HasProgress(pace, PaceOrder[3]) => pace.originalBuffer # NoBuffer
        /\ HasProgress(pace, PaceOrder[5]) => pace.speechChunks # <<>>
        /\ HasProgress(pace, PaceOrder[7]) => pace.newBuffer # NoBuffer

\* Witness of C16: one invocation returned after its four messages.
C16_Witness ==
    /\ pace.pc = "returned"
    /\ ProgressCount(pace.log) = 4
    /\ pace.blob # NoBlob

\* The setProgress calls of a log, in order.
ProgressOf(log) == SelectSeq(log, LAMBDA e : e.ev = "setProgress")

\* The message reported for the decode of the i-th of files (1-based).
FileMessage(files, i) ==
    Ev("setProgress", "Decoding i/n: name...", <<i, Len(files), files[i]>>)

\* The messages of the validation stage and of the merge stage.
LastMessages(files) ==
    <<Ev("setProgress", "Step n+1/total: Validating audio properties...",
         <<Len(files) + 1, Len(files) + 2>>),
      Ev("setProgress", "Step n+2/total: Merging audio...",
         <<Len(files) + 2, Len(files) + 2>>)>>

\* C17 as stated: a merge of n files that succeeds reports exactly n + 2
\* progress messages: one per input file in input order, then one for the
\* validation and one for the merge.
C17_MergeProgressPerStage ==
    merge.pc = "returned"
        => /\ Len(ProgressOf(merge.log)) = Len(merge.files) + 2
           /\ ProgressOf(merge.log)
                 = [i \in 1..Len(merge.files) |-> FileMessage(merge.files, i)]
                   \o LastMessages(merge.files)

\* The messages of a merge of files that succeeds: the decode stage is
\* announced once, then every file, then validation and merge.
MergeOrder(files) ==
    <<Ev("setProgress", "Step 1/total: Decoding audio files...", <<Len(files) + 2>>)>>
    \o [i \in 1..Len(files) |-> FileMessage(files, i)]
    \o LastMessages(files)

\* C17 amended: a merge of n files reports a prefix of n + 3 messages: the
\* announcement of the decode stage, one message per file in input order,
\* each before that file's decode starts, one for the validation and one
\* for the merge; a merge that succeeds reports all n + 3.
C17_MergeProgressWithAnnouncement ==
    LET ps == ProgressOf(merge.log)
        n == Len(merge.files)
        decodes == SelectSeq(merge.log, LAMBDA e : e.ev = "decodeAudio")
    IN  /\ Len(ps) <= n + 3
        /\ ps = SubSeq(MergeOrder(merge.files), 1, Len(ps))
        /\ merge.pc = "returned" => Len(ps) = n + 3
        /\ Len(ps) >= 1 => Len(decodes) = (IF Len(ps) - 1 < n THEN Len(ps) - 1 ELSE n)

\* Witness of C17: a merge of three files returned after six messages.
C17_Witness ==
    /\ merge.pc = "returned"
    /\ Len(merge.files) = 3
    /\ Len(ProgressOf(merge.log)) = 6

\* The decodes a merge has started, in order, and how many have settled
\* (resolved into decodedBuffers, or rejected).
DecodesStarted(inv) == SelectSeq(inv.log, LAMBDA e : e.ev = "decodeAudio")

DecodesSettled(inv) ==
    Len(inv.decodedBuffers) + (IF inv.error.kind = "DecodeFailure" THEN 1 ELSE 0)

\* C18: within one mergeAudioFiles invocation the decode of input i + 1
\* starts only after the decode of input i has settled, so at most one
\* decode is outstanding; inputs are decoded in input order, and their
\* samples appear in the merged buffer in that same order.
C18_DecodesSequentialInOrder ==
    LET started == DecodesStarted(merge)
        bs == merge.decodedBuffers
        m == merge.mergedBuffer
    IN  /\ Len(started) - DecodesSettled(merge) \in {0, 1}
        /\ (Len(started) - DecodesSettled(merge) = 1) = (merge.pc = "decoding")
        /\ Len(started) <= Len(merge.files)
        /\ \A k \in 1..Len(started) : started[k].names = <<merge.files[k]>>
        /\ \A k \in 1..Len(bs) : bs[k] \in MergeDecodeOutcomes(merge.files[k])
        /\ m # NoBuffer
              => \A i \in 1..Len(merge.files) : \A c \in 1..m.numberOfChannels :
                 \A k \in 1..bs[i].length :
                    m.channels[c][LengthBefore(bs, i) + k] = Tag(merge.files[i], c, k)

\* Witness of C18: the third decode of three is outstanding, two have
\* resolved.
C18_Witness ==
    /\ merge.pc = "decoding"
    /\ Len(merge.files) = 3
    /\ Len(DecodesStarted(merge)) = 3
    /\ Len(merge.decodedBuffers) = 2

(***************************************************************************)
(* Claims about the callers.                                               *)
(***************************************************************************)
\* C19: at most one pipeline invocation is in flight at any time: under
\* every sequence of user events and settlements, App and Merger never
\* start processAudioFile or mergeAudioFiles while an earlier invocation
\* has neither resolved nor rejected.
C19_AtMostOneInFlight == Len(inFlight) <= 1

\* C20: merging is associative over compatible buffers: merging the first
\* two of three buffers of one sample rate and channel count and then the
\* outcome with the third gives the same buffer (length, channel count,
\* rate and every sample of every channel) as merging the three at once.
C20_MergeAssociative ==
    (fn.name = "mergeBuffers" /\ fn.returned) => fn.newBuffer = fn.result[1]

\* Three stereo buffers of different contents and lengths, merged both ways.
C20_Witness ==
    /\ fn.name = "mergeBuffers" /\ fn.returned
    /\ fn.buffers[1].numberOfChannels = 2
    /\ fn.buffers[1].channels[1] = <<1, -3>>
    /\ fn.buffers[2].channels[1] = <<-3>>
    /\ fn.buffers[3].channels[1] = <<0, 1>>
    /\ fn.result[1].channels = << <<1, -3, -3, 0, 1>>, <<-1, 3, 3, 0, -1>> >>

\* The scan state detectSpeechChunks ends its loop with.
ScanEnd ==
    Scan(getChannelData(fn.audioBuffer, 0), fn.settings.silenceThreshold,
         minSilenceSamples(fn.audioBuffer.sampleRate, fn.settings),
         [i |-> 0, speechStart |-> -1, chunks |-> <<>>])

\* The above-threshold samples at or after the index the scan resumes at
\* once it has closed chunk c: c.end + minSilenceSamples + 1.
LoudAfterSkip(c) ==
    {j \in LoudIndices :
        j * Den >= c.end * Den
                   + minSilenceSamples(fn.audioBuffer.sampleRate, fn.settings) + Den}

\* C21: minSilenceSamples is a whole number of samples, so the scan index
\* is a whole sample index when the scan ends, and every above-threshold
\* sample at or after the index the scan resumes at after a confirmed
\* silence lies inside a returned chunk.
C21_ScanIndexStaysIntegral ==
    SegmentReturned
        => /\ minSilenceSamples(fn.audioBuffer.sampleRate, fn.settings) % Den = 0
           /\ ScanEnd.i % Den = 0
           /\ \A k \in 1..Len(fn.result) : \A j \in LoudAfterSkip(fn.result[k]) :
                 \E n \in 1..Len(fn.result) :
                    fn.result[n].start <= j /\ j < fn.result[n].end

\* C22: createPaddedAudio throws the "No speech detected" error and
\* returns no buffer whenever the chunk list is empty or the total output
\* length it computes is zero or negative.
C22_NonPositiveLengthIsEmptyResynthesis ==
    (/\ fn.name = "createPaddedAudio" /\ fn.returned
     /\ \/ fn.chunks = <<>>
        \/ totalLength(fn.chunks, fn.settings.pauseMultiplier) <= 0)
        => fn.error.kind = "EmptyResynthesis" /\ fn.newBuffer = NoBuffer

\* C23: no stage mutates what it is given.  After any of segmentation,
\* resynthesis, merging and encoding, in any order, every sample of the
\* decoded source buffers is as decoded and the settings are as passed in;
\* resynthesis and merge have written into the buffer they allocated (it
\* holds exactly the stage's result), and encoding has left the buffer it
\* was given as the stage made it.
C23_StagesLeaveInputsUnchanged ==
    fn.name = "stages"
        => /\ fn.settings = fn.given.settings
           /\ \A k \in 1..Len(fn.given.buffers) :
                 fn.heap[k] = fn.given.buffers[k].channels
           /\ fn.made.createPaddedAudio # 0
                 => fn.heap[fn.made.createPaddedAudio]
                    = createPaddedAudio(fn.given.buffers[1], fn.chunks,
                                        fn.given.settings).buffer.channels
           /\ fn.made.mergeAudioFiles # 0
                 => fn.heap[fn.made.mergeAudioFiles]
                    = mergeBuffers(fn.given.buffers).channels

\* All four stages have run on stereo buffers; the resynthesized buffer has
\* the speech of the first source displaced, the merged one was encoded.
C23_Witness ==
    /\ fn.name = "stages"
    /\ fn.done = {"detectSpeechChunks", "createPaddedAudio", "mergeAudioFiles",
                  "encodeMp3"}
    /\ fn.given.buffers[1].channels = << <<0, -3>>, <<0, 3>> >>
    /\ fn.given.buffers[2].channels = << <<1, 0>>, <<-1, 0>> >>
    /\ fn.chunks = <<SpeechChunk(1, 2)>>
    /\ fn.given.settings.pauseMultiplier = 2
    /\ fn.heap[fn.made.createPaddedAudio] = << <<-3, 0>>, <<3, 0>> >>
    /\ fn.made.encodeMp3 = fn.made.mergeAudioFiles
    /\ fn.heap[Len(fn.heap) - 1] = << <<0, -32767, 32767, 0>> >>
    /\ fn.heap[Len(fn.heap)] = << <<0, 32767, -32767, 0>> >>

\* C24: the pipeline functions are re-entrant.  However the steps of two
\* invocations (of processAudioFile, of mergeAudioFiles, or one of each)
\* interleave, and whether the second starts before or after the first
\* has ended, each invocation's record -- its progress messages and stage
\* calls in order, its buffers, its error or its blob -- is at every step
\* the record of the same invocation run alone with the same decode
\* outcomes and encoder returns; and lamejs is only ever read.
C24_InterleavedAsAlone ==
    \A k \in 1..Len(invocations) : invocations[k].inv = alone(invocations[k])

\* Two merges in flight at once: the first has validated its two buffers
\* and waits for its second timer, the second has decoded one of its own
\* files and waits for the decode of the other.
C24_Witness ==
    /\ Len(invocations) = 2
    /\ invocations[1].kind = "mergeAudioFiles"
    /\ invocations[2].kind = "mergeAudioFiles"
    /\ invocations[1].inv.pc = "merging" /\ invocations[2].inv.pc = "decoding"
    /\ invocations[1].inv.decodedBuffers[2].channels = <<<<Tag(2, 1, 1)>>>>
    /\ ProgressOf(invocations[1].inv.log) = MergeOrder(<<1, 2>>)
    /\ invocations[2].inv.i = 1
    /\ invocations[2].inv.decodedBuffers[1].channels = <<<<Tag(3, 1, 1)>>, <<Tag(3, 2, 1)>>>>
    /\ ProgressOf(invocations[2].inv.log)
          = SubSeq(MergeOrder(<<3, 4>>), 1, 3)

\* App's state with everything a pipeline run touches cleared.
AppCleared(a) ==
    /\ a.file = NoFile /\ a.originalAudioUrl = NoUrl /\ a.processedAudioUrl = NoUrl
    /\ a.error = NoMessage /\ a.progressMessage = NoMessage
    /\ a.processedFileName = NoMessage

\* The same for the Merger.
MergerCleared(m) ==
    /\ m.files = <<>> /\ m.mergedAudioUrl = NoUrl /\ m.error = NoMessage
    /\ m.progressMessage = NoMessage /\ m.mergedFileName = NoMessage

\* C25: a caller enters Error only with the message of a failed invocation
\* as its error, the progress message cleared and no output URL; and from
\* Error its next state is Error or Idle only, Idle with the files, URLs,
\* error, progress message and output file name cleared.
C25_ErrorThenOnlyReset ==
    [][/\ (app.processingState # "ERROR" /\ app'.processingState = "ERROR")
             => /\ app'.error \in {Message(e, <<>>) : e \in PaceErrors}
                /\ app'.progressMessage = NoMessage
                /\ app'.processedAudioUrl = NoUrl
       /\ app.processingState = "ERROR"
             => /\ app'.processingState \in {"ERROR", "IDLE"}
                /\ app'.processingState = "IDLE" => AppCleared(app')
       /\ (merger.processingState # "ERROR" /\ merger'.processingState = "ERROR")
             => /\ merger'.error # NoMessage
                /\ merger'.progressMessage = NoMessage
                /\ merger'.mergedAudioUrl = NoUrl
       /\ merger.processingState = "ERROR"
             => /\ merger'.processingState \in {"ERROR", "IDLE"}
                /\ merger'.processingState = "IDLE" => MergerCleared(merger')
      ]_vars

\* The object URLs a caller holds a reference to.
HeldUrls == {app.originalAudioUrl, app.processedAudioUrl, merger.mergedAudioUrl} \ {NoUrl}

\* C26: every object URL created and not yet revoked is still referenced
\* by a caller: the original-file URL or the processed-output URL of App,
\* or the merged-output URL of the Merger.
C26_UrlsRevokedBeforeDropped == urls \subseteq HeldUrls

\* C27: the files an in-flight merge decodes, and their order, are the
\* Merger's list as it was when the merge was started, whatever is added
\* to, removed from or reordered in the list while it is processing.
C27_MergeOrderFixedAtStart ==
    \A k \in 1..Len(inFlight) :
        inFlight[k].caller = "Merger" => inFlight[k].files = inFlight[k].started

\* A merge of files 1, 2 has decoded its first file; meanwhile the list was
\* reordered to 2, 1 by a drag.
C27_Witness ==
    /\ Len(inFlight) = 1 /\ inFlight[1].caller = "Merger" /\ inFlight[1].mounted
    /\ inFlight[1].step = 1
    /\ inFlight[1].files = <<File(1, "audio/mpeg"), File(2, "audio/mpeg")>>
    /\ merger.files = <<File(2, "audio/mpeg"), File(1, "audio/mpeg")>>
    /\ merger.processingState = "PROCESSING"

\* C28: App enters Done or Error only from Processing; from Idle its next
\* state is Idle, with no output URL, or Ready, by the selection of a file.
C28_IdleUntilFileSelected ==
    [][/\ (app'.processingState \in {"DONE", "ERROR"}
           /\ app'.processingState # app.processingState)
             => app.processingState = "PROCESSING"
       /\ app.processingState = "IDLE"
             => \/ app'.processingState = "IDLE" /\ app'.processedAudioUrl = NoUrl
                \/ app'.processingState = "READY" /\ app'.file # NoFile
      ]_vars

\* The write cursor before chunk k (1-based), scaled by Den: the padded
\* lengths of the chunks before it.
CursorBefore(k) == DurationBefore(fn.chunks, k) * (Den + fn.settings.pauseMultiplier)

\* C29: for an ascending, non-overlapping chunk list and pauseMultiplier >= 0
\* no write of createPaddedAudio overflows the buffer it allocated: for
\* every chunk, round(cursor) + (end - start) <= ceil(total length), and no
\* set() throws a RangeError.
C29_WritesStayInside ==
    (ResynthReturned /\ fn.settings.pauseMultiplier >= 0)
        => /\ fn.error.kind # "RangeError"
           /\ \A k \in 1..Len(fn.chunks) :
                 Round(CursorBefore(k)) + (fn.chunks[k].end - fn.chunks[k].start)
                    <= Ceil(CursorBefore(Len(fn.chunks) + 1))
           /\ fn.chunks # <<>>
                 => fn.newBuffer.length = Ceil(CursorBefore(Len(fn.chunks) + 1))

\* The second of two chunks is written at a cursor rounded up (1.5 to 2)
\* and ends exactly at the end of the allocated buffer.
C29_Witness ==
    /\ ResynthReturned /\ fn.error = NoError
    /\ Len(fn.chunks) = 2
    /\ CursorBefore(2) % Den # 0
    /\ Round(CursorBefore(2)) * Den > CursorBefore(2)
    /\ Round(CursorBefore(2)) + (fn.chunks[2].end - fn.chunks[2].start)
          = fn.newBuffer.length
====
